---------------------------- MODULE Spec2Model ----------------------------
(***************************************************************************)
(* A state-machine model of the lesson scheduler of src/scheduler.js:      *)
(* the ScheduleBuilder constructor (roster inference and history           *)
(* ingestion), generateAllSlots, and buildSchedule with its recursive      *)
(* backtracking solve(), run first with the 28-day rule and then with the  *)
(* 21-day rule.                                                            *)
(*                                                                         *)
(* Dates are day numbers counted from 1 January 1970 (a Thursday), the     *)
(* origin of the JavaScript Date.  A Date built by new Date(y, m, d) is    *)
(* the LOCAL midnight of that day, so its timestamp depends on the time    *)
(* zone of the machine: Stamp gives it in hours, and the variable tz says  *)
(* whether a daylight-saving change falls inside the modelled calendar.    *)
(***************************************************************************)
EXTENDS Integers, Sequences, FiniteSets, TLC

VARIABLES
    startDate,                \* this.startDate (a day number)
    dayCycle,                 \* this.dayCycle
    daysOff,                  \* this.daysOff (a set of day numbers)
    weeks,                    \* this.weeks
    scheduleHistory,          \* the constructor's scheduleHistory argument
    tz,                       \* the time zone's daylight-saving change
    LESSON_GROUPS,            \* this.LESSON_GROUPS
    initialPeriodAssignments, \* this.initialPeriodAssignments
    histPos,                  \* records of the history already ingested
    pc,                       \* position of the program
    slots,                    \* buildSchedule: const slots
    dayRule,                  \* the dayRule argument of the running solve
    schedule,                 \* buildSchedule: let schedule
    weeklyAssignments,        \* buildSchedule: weeklyAssignments (a Map)
    periodAssignments,        \* buildSchedule: periodAssignments
    muDays,                   \* buildSchedule: muDays (a Set)
    stack,                    \* the frames of the recursive solve calls
    console,                  \* the day rules announced by console.log
    result,                   \* the value buildSchedule returned
    poolCurrentDate,          \* rotating-pool builder: let currentDate
    groupSets,                \* rotating-pool builder: this.groupSets
    groupsForCycle,           \* rotating-pool builder: let groupsForCycle
    weeklyLessonCount,        \* rotating-pool builder: let weeklyLessonCount
    usedGroupsThisWeek,       \* rotating-pool builder: usedGroupsThisWeek
    entry,                    \* rotating-pool builder: const entry
    earlierResults,           \* what the earlier calls of buildSchedule returned
    page                      \* the page: history checkbox, pasted data, zone

inputs == <<startDate, dayCycle, daysOff, weeks, scheduleHistory, tz>>
builder == <<LESSON_GROUPS, initialPeriodAssignments, histPos>>
search == <<slots, dayRule, schedule, weeklyAssignments, periodAssignments,
            muDays, stack, console, result>>
pools == <<poolCurrentDate, groupSets, groupsForCycle, weeklyLessonCount,
           usedGroupsThisWeek, entry>>
vars == <<inputs, builder, search, pc, pools, earlierResults, page>>

---------------------------------------------------------------------------
(* Program constants *)

PERFECT_SCHEDULE_DAY_RULE == 28
HIGH_QUALITY_DAY_RULE == 21
REQUIRED_UNIQUE_GROUPS == 22

MU == "MU"

\* The default roster: String.fromCharCode("A".charCodeAt(0) + i), i < 22.
Letters ==
    <<"A", "B", "C", "D", "E", "F", "G", "H", "I", "J", "K", "L", "M",
      "N", "O", "P", "Q", "R", "S", "T", "U", "V", "W", "X", "Y", "Z">>

DefaultGroups == [i \in 1..REQUIRED_UNIQUE_GROUPS |-> Letters[i]]

\* Period sets of the two day types.
OddDayPeriods == <<1, 4, 7, 8>>
EvenDayPeriods == <<1, 2, 3, 7, 8>>

\* Values a JavaScript variable holds besides a date.
Undefined == -1
Null == -2

\* parseInt of a text that does not start with digits.
NaN == -3

\* A date field a history record lacks (undefined, null or "": all falsy).
Missing == 0

HoursPerDay == 24

---------------------------------------------------------------------------
(* Dates *)

\* Date.prototype.getDay of day number d: 0 is Sunday, 6 is Saturday.
GetDay(d) == (d + 4) % 7

\* The timestamp (in hours) of the local midnight that starts day d. After
\* clocks are set forward an hour, local midnights come an hour earlier;
\* after they are set back, an hour later.
Stamp(zone, d) ==
    IF zone.kind = "forward" /\ d > zone.day THEN d * HoursPerDay - 1
    ELSE IF zone.kind = "back" /\ d > zone.day THEN d * HoursPerDay + 1
    ELSE d * HoursPerDay

\* A variant of getWeekIdentifier that does not go back to the Monday.
getWeekIdentifier_NoAnchor(d) == d

\* The week identifier: the day number of the Monday of d's week.
getWeekIdentifier(d) ==
    LET day == GetDay(d)
    IN  d - day + (IF day = 0 THEN -6 ELSE 1)

---------------------------------------------------------------------------
(* JavaScript objects used as maps: a function whose DOMAIN is the set of  *)
(* keys present.  Reading an absent key gives undefined.                   *)

Get(obj, key) == IF key \in DOMAIN obj THEN obj[key] ELSE Undefined

Put(obj, key, val) ==
    [k \in DOMAIN obj \cup {key} |-> IF k = key THEN val ELSE obj[k]]

Delete(obj, key) == [k \in DOMAIN obj \ {key} |-> obj[k]]

EmptyObject == [k \in {} |-> Undefined]

\* A variant of JsonCopy that loses the dates.
JsonCopy_NoDates(m) == [g \in DOMAIN m |-> [k \in {} |-> Undefined]]

\* JSON.parse(JSON.stringify(m)) followed by new Date(...) on every entry, for
\* a map group -> period -> Date: an entry holding undefined is dropped by
\* stringify, a Date comes back as the same instant.
JsonCopy(m) ==
    [g \in DOMAIN m |->
        [k \in {q \in DOMAIN m[g] : m[g][q] # Undefined} |-> m[g][k]]]

Range(seq) == {seq[i] : i \in 1..Len(seq)}

---------------------------------------------------------------------------
(* The constructor *)

\* parseInt(String(lesson.period).replace("Pd ", ""), 10)
ParsePeriod(label) ==
    CASE label \in {"Pd 1", "1"} -> 1
      [] label \in {"Pd 2", "2"} -> 2
      [] label \in {"Pd 3", "3"} -> 3
      [] label \in {"Pd 4", "4"} -> 4
      [] label \in {"Pd 5", "5"} -> 5
      [] label \in {"Pd 6", "6"} -> 6
      [] label \in {"Pd 7", "7"} -> 7
      [] label \in {"Pd 8", "8"} -> 8
      [] OTHER -> NaN

\* new Set(scheduleHistory.map((item) => item.group).filter(Boolean)): a Set
\* keeps its members in the order they were first added. The positions of the
\* records that add a new name:
FirstMentions(list) ==
    {i \in 1..Len(list) :
        /\ list[i].group # ""
        /\ \A j \in 1..(i - 1) : list[j].group # list[i].group}

\* A variant of GroupsFromHistory that leaves MU in the set.
GroupsFromHistory_KeepMU(list) ==
    LET mentions == FirstMentions(list)
        nth(k) == CHOOSE i \in mentions :
                      Cardinality({j \in mentions : j < i}) = k - 1
    IN  [k \in 1..Cardinality(mentions) |-> list[nth(k)].group]

\* groupsFromHistory.delete("MU"), then [...groupsFromHistory].
GroupsFromHistory(list) ==
    LET mentions == {i \in FirstMentions(list) : list[i].group # MU}
        nth(k) == CHOOSE i \in mentions :
                      Cardinality({j \in mentions : j < i}) = k - 1
    IN  [k \in 1..Cardinality(mentions) |-> list[nth(k)].group]

\* A variant of RosterOf that takes the history's names whatever their count.
RosterOf_NoFallback(history) ==
    IF ~history.null /\ Len(history.list) > 0
    THEN GroupsFromHistory(history.list)
    ELSE DefaultGroups

\* Lines 47-67: the roster.
RosterOf(history) ==
    IF ~history.null /\ Len(history.list) > 0
    THEN IF Len(GroupsFromHistory(history.list)) = REQUIRED_UNIQUE_GROUPS
         THEN GroupsFromHistory(history.list)
         ELSE DefaultGroups
    ELSE DefaultGroups

\* A variant of IngestedDate in which the last record wins.
IngestedDate_LastWins(existingDate, historyDate, zone) == historyDate

\* Lines 79-99: the body of the forEach of _populateAssignmentsFromHistory.
IngestedDate(existingDate, historyDate, zone) ==
    IF existingDate = Undefined \/ Stamp(zone, historyDate) > Stamp(zone, existingDate)
    THEN historyDate
    ELSE existingDate

PopulateOne(ipa, lesson, zone) ==
    IF lesson.group = "" \/ lesson.period = "" \/ lesson.date = Missing
       \/ lesson.group = MU
    THEN ipa
    ELSE IF lesson.group \in DOMAIN ipa
    THEN LET periodNum == ParsePeriod(lesson.period)
             existingDate == Get(ipa[lesson.group], periodNum)
         IN  [ipa EXCEPT ![lesson.group] =
                 Put(@, periodNum,
                     IngestedDate(existingDate, lesson.date, zone))]
    ELSE ipa

---------------------------------------------------------------------------
(* generateAllSlots *)

PeriodsOf(currentDayCycle) ==
    IF currentDayCycle % 2 # 0 THEN OddDayPeriods ELSE EvenDayPeriods

\* A variant of SlotsOfDay that pushes the day's periods last to first.
SlotsOfDay_Reversed(currentDate, currentDayCycle) ==
    [i \in 1..Len(PeriodsOf(currentDayCycle)) |->
        [date |-> currentDate,
         period |-> PeriodsOf(currentDayCycle)[Len(PeriodsOf(currentDayCycle)) + 1 - i],
         dayCycle |-> currentDayCycle]]

SlotsOfDay(currentDate, currentDayCycle) ==
    [i \in 1..Len(PeriodsOf(currentDayCycle)) |->
        [date |-> currentDate,
         period |-> PeriodsOf(currentDayCycle)[i],
         dayCycle |-> currentDayCycle]]

\* A variant of IsSchoolDay that does not look at the days off.
IsSchoolDay_NoDaysOff(currentDate, off) ==
    GetDay(currentDate) > 0 /\ GetDay(currentDate) < 6

IsSchoolDay(currentDate, off) ==
    /\ GetDay(currentDate) > 0 /\ GetDay(currentDate) < 6
    /\ currentDate \notin off

\* A variant of SlotsFrom in which the cycle advances on every calendar day.
RECURSIVE SlotsFrom_AlwaysAdvance(_, _, _, _)
SlotsFrom_AlwaysAdvance(currentDate, currentDayCycle, endDate, off) ==
    IF ~(currentDate < endDate) THEN <<>>
    ELSE IF IsSchoolDay(currentDate, off)
    THEN SlotsOfDay(currentDate, currentDayCycle)
         \o SlotsFrom_AlwaysAdvance(currentDate + 1, currentDayCycle + 1, endDate, off)
    ELSE SlotsFrom_AlwaysAdvance(currentDate + 1, currentDayCycle + 1, endDate, off)

\* The while loop of lines 110-128, from currentDate on.
RECURSIVE SlotsFrom(_, _, _, _)
SlotsFrom(currentDate, currentDayCycle, endDate, off) ==
    IF ~(currentDate < endDate) THEN <<>>
    ELSE IF IsSchoolDay(currentDate, off)
    THEN SlotsOfDay(currentDate, currentDayCycle)
         \o SlotsFrom(currentDate + 1, currentDayCycle + 1, endDate, off)
    ELSE SlotsFrom(currentDate + 1, currentDayCycle, endDate, off)

\* A variant of generateAllSlots whose end date is included.
generateAllSlots_Inclusive(start, cycle, off, nweeks) ==
    SlotsFrom(start, cycle, start + nweeks * 7 + 1, off)

generateAllSlots(start, cycle, off, nweeks) ==
    SlotsFrom(start, cycle, start + nweeks * 7, off)

---------------------------------------------------------------------------
(* solve: validity, candidate order, apply and undo *)

\* periodAssignments[group]?.[period]
LastDate(pa, group, period) ==
    IF group \in DOMAIN pa THEN Get(pa[group], period) ELSE Undefined

\* A variant of TooSoon that compares the raw difference with the day rule.
TooSoon_NoDayUnit(lastDate, date, rule) ==
    /\ lastDate # Undefined
    /\ Stamp(tz, date) - Stamp(tz, lastDate) < rule

\* Rule 3 of _isGroupValidForSlot: (date - lastDate) / (1000*60*60*24) < dayRule
TooSoon(lastDate, date, rule) ==
    /\ lastDate # Undefined
    /\ Stamp(tz, date) - Stamp(tz, lastDate) < rule * HoursPerDay

\* Rule 2: weeklyAssignments.get(weekId)?.has(group)
UsedThisWeek(wa, weekId, group) ==
    weekId \in DOMAIN wa /\ group \in wa[weekId]

\* A variant of _isGroupValidForSlot that lets MU in more than once a day.
_isGroupValidForSlot_AnyMU(group, slot, wa, pa, md, rule) ==
    IF group = MU
    THEN TRUE
    ELSE /\ ~UsedThisWeek(wa, getWeekIdentifier(slot.date), group)
         /\ ~TooSoon(LastDate(pa, group, slot.period), slot.date, rule)

_isGroupValidForSlot(group, slot, wa, pa, md, rule) ==
    IF group = MU
    THEN slot.date \notin md
    ELSE /\ ~UsedThisWeek(wa, getWeekIdentifier(slot.date), group)
         /\ ~TooSoon(LastDate(pa, group, slot.period), slot.date, rule)

\* A variant of CompareCandidates that does not look at the dates.
CompareCandidates_NoDates(a, b, pa, period) ==
    IF a = MU THEN 1
    ELSE IF b = MU THEN -1
    ELSE 0

\* The comparator of candidates.sort: negative when a goes before b.
\* periodAssignments[a]?.[period] || new Date(0) is the epoch, timestamp 0,
\* for a group with no date in the period.
SortStamp(pa, group, period) ==
    IF LastDate(pa, group, period) = Undefined THEN 0
    ELSE Stamp(tz, LastDate(pa, group, period))

CompareCandidates(a, b, pa, period) ==
    IF a = MU THEN 1
    ELSE IF b = MU THEN -1
    ELSE SortStamp(pa, a, period) - SortStamp(pa, b, period)

\* Array.prototype.sort is stable: x goes after the last element that the
\* comparator does not put behind it.
RECURSIVE InsertCandidate(_, _, _, _)
InsertCandidate(sorted, x, pa, period) ==
    IF sorted = <<>> THEN <<x>>
    ELSE IF CompareCandidates(sorted[Len(sorted)], x, pa, period) > 0
    THEN Append(InsertCandidate(SubSeq(sorted, 1, Len(sorted) - 1), x, pa, period),
                sorted[Len(sorted)])
    ELSE Append(sorted, x)

RECURSIVE SortCandidates(_, _, _)
SortCandidates(list, pa, period) ==
    IF list = <<>> THEN <<>>
    ELSE InsertCandidate(
             SortCandidates(SubSeq(list, 1, Len(list) - 1), pa, period),
             list[Len(list)], pa, period)

\* A variant of Candidates with MU before the groups.
Candidates_MUFirst(roster, pa, period) ==
    <<MU>> \o SortCandidates(roster, pa, period)

\* Lines 193-200.
Candidates(roster, pa, period) ==
    SortCandidates(Append(roster, MU), pa, period)

\* schedule.find((d) => d.date.toDateString() === dateStr): the position of
\* the first entry of that date, 0 when there is none.
FindDay(sched, date) ==
    IF \E i \in 1..Len(sched) : sched[i].date = date
    THEN CHOOSE i \in 1..Len(sched) :
             /\ sched[i].date = date
             /\ \A j \in 1..(i - 1) : sched[j].date # date
    ELSE 0

\* schedule.sort((a, b) => a.date - b.date), stable.
RECURSIVE InsertDay(_, _)
InsertDay(sorted, e) ==
    IF sorted = <<>> THEN <<e>>
    ELSE IF Stamp(tz, sorted[Len(sorted)].date) - Stamp(tz, e.date) > 0
    THEN Append(InsertDay(SubSeq(sorted, 1, Len(sorted) - 1), e),
                sorted[Len(sorted)])
    ELSE Append(sorted, e)

\* A variant of SortDays that orders the entries from the latest date to the
\* earliest.
RECURSIVE SortDays_LatestFirst(_)
SortDays_LatestFirst(sched) ==
    IF sched = <<>> THEN <<>>
    ELSE LET e == sched[Len(sched)]
             rest == SortDays_LatestFirst(SubSeq(sched, 1, Len(sched) - 1))
         IN  SelectSeq(rest, LAMBDA x : Stamp(tz, x.date) > Stamp(tz, e.date))
                 \o <<e>>
                 \o SelectSeq(rest, LAMBDA x : Stamp(tz, x.date) <= Stamp(tz, e.date))

RECURSIVE SortDays(_)
SortDays(sched) ==
    IF sched = <<>> THEN <<>>
    ELSE InsertDay(SortDays(SubSeq(sched, 1, Len(sched) - 1)), sched[Len(sched)])

\* A variant of ScheduleEntry that keeps the running cycle value.
ScheduleEntry_RawCycle(date, cycle) ==
    [date |-> date, dayCycle |-> cycle, lessons |-> <<>>]

\* new ScheduleEntry(date, dayCycle % 2 === 0 ? 2 : 1)
ScheduleEntry(date, cycle) ==
    [date |-> date, dayCycle |-> IF cycle % 2 = 0 THEN 2 ELSE 1, lessons |-> <<>>]

\* addLesson: this.lessons.push({ period: `Pd ${period}`, group })
Lesson(period, group) == [period |-> "Pd " \o ToString(period), group |-> group]

\* Lines 214-225: find or create the day's entry, then add the lesson to it.
WithLesson(sched, slot, group) ==
    LET withDay == IF FindDay(sched, slot.date) = 0
                   THEN SortDays(Append(sched, ScheduleEntry(slot.date, slot.dayCycle)))
                   ELSE sched
        at == FindDay(withDay, slot.date)
    IN  [withDay EXCEPT ![at].lessons = Append(@, Lesson(slot.period, group))]

\* A variant of WithoutLesson that leaves the lesson in place.
WithoutLesson_NoPop(sched, slot) == sched

\* A variant of WithoutLesson that keeps a day entry left without lessons.
WithoutLesson_KeepEntry(sched, slot) ==
    LET at == FindDay(sched, slot.date)
    IN  [sched EXCEPT ![at].lessons = SubSeq(@, 1, Len(@) - 1)]

\* Lines 258-259: dayEntry.lessons.pop(), then schedule.pop() when the entry
\* is left empty. dayEntry is the entry the apply step found or created.
WithoutLesson(sched, slot) ==
    LET at == FindDay(sched, slot.date)
        popped == [sched EXCEPT ![at].lessons = SubSeq(@, 1, Len(@) - 1)]
    IN  IF Len(popped[at].lessons) = 0
        THEN SubSeq(popped, 1, Len(popped) - 1)
        ELSE popped

\* A variant of NextValid with a for loop that stops at the first candidate
\* that is not valid.
NextValid_StopAtInvalid(frame, slot, wa, pa, md, rule) ==
    IF /\ frame.k <= Len(frame.candidates)
       /\ _isGroupValidForSlot(frame.candidates[frame.k], slot, wa, pa, md, rule)
    THEN frame.k
    ELSE 0

\* The first position from k on whose candidate is valid for the slot, 0 when
\* the for loop of line 202 runs out.
NextValid(frame, slot, wa, pa, md, rule) ==
    LET ok == {j \in frame.k..Len(frame.candidates) :
                  _isGroupValidForSlot(frame.candidates[j], slot, wa, pa, md, rule)}
    IN  IF ok = {} THEN 0 ELSE CHOOSE j \in ok : \A i \in ok : j <= i

---------------------------------------------------------------------------
(* Bounds of the model and the inputs it draws *)

\* The longest horizon, in weeks.
MaxWeeks == 5

\* Day 60 is a Monday (2 March 1970); the start dates cover one whole week,
\* the weekend included.
StartDates == 60..66

NoHistory == [null |-> TRUE, list |-> <<>>]

History(list) == [null |-> FALSE, list |-> list]

\* Time zones: no daylight-saving change, or clocks set forward or back in
\* the night of a Sunday (day 59 is the Sunday before the start dates, day 66
\* the Sunday after the first week).
NoChange == [kind |-> "none", day |-> 0]

ChangeBefore == {NoChange, [kind |-> "forward", day |-> 59],
                 [kind |-> "back", day |-> 59]}

ChangeWithin == {[kind |-> "forward", day |-> 66], [kind |-> "back", day |-> 66]}

\* Days off: none, one day in the first week, the whole week that starts on
\* day 67.
DaysOffChoices == {{}, {62}, 67..71}

\* A roster of 22 names that are not the default letters.
CustomGroups == [i \in 1..REQUIRED_UNIQUE_GROUPS |-> "G" \o ToString(i)]

\* History records: every group of the list in the period, on the date.
Block(date, label, groups) ==
    [i \in 1..Len(groups) |-> [date |-> date, period |-> label, group |-> groups[i]]]

\* The labels of the first two periods of a day of the cycle.
FirstTwo(cycle) == IF cycle % 2 # 0 THEN <<"Pd 1", "Pd 4">> ELSE <<"Pd 1", "Pd 2">>

\* No history: every start date and cycle, with and without days off.
PlainInputs ==
    [startDate : StartDates, dayCycle : {1, 2}, daysOff : DaysOffChoices,
     weeks : {0, 1, MaxWeeks}, scheduleHistory : {NoHistory}, tz : {NoChange}]

\* No history, a daylight-saving change inside the horizon.
ChangeInputs ==
    [startDate : {60}, dayCycle : {1, 2}, daysOff : {{}},
     weeks : {MaxWeeks}, scheduleHistory : {NoHistory}, tz : ChangeWithin]

\* A horizon of one day, Friday 64 (the next Monday to Thursday are off): the
\* whole default roster had the first two periods of the day k days before.
BlockInputs ==
    {[startDate |-> 64, dayCycle |-> c, daysOff |-> 67..70, weeks |-> 1,
      scheduleHistory |->
          History(Block(64 - k, FirstTwo(c)[1], DefaultGroups)
                  \o Block(64 - k, FirstTwo(c)[2], DefaultGroups)),
      tz |-> z] : c \in {1, 2}, k \in {20, 21, 22, 28}, z \in ChangeBefore}

\* The whole default roster had period 1 fifteen days before the start.
SeedInputs ==
    {[startDate |-> 60, dayCycle |-> c, daysOff |-> {}, weeks |-> w,
      scheduleHistory |-> History(Block(45, "Pd 1", DefaultGroups)),
      tz |-> z] : c \in {1, 2}, w \in {1, MaxWeeks}, z \in ChangeBefore}

\* A horizon of one day, Friday 64. Period 7 is closed to every group and
\* period 8 to every group but A: the search has to take back its first
\* choices.
OneDayInputs ==
    {[startDate |-> 64, dayCycle |-> c, daysOff |-> 67..70, weeks |-> 1,
      scheduleHistory |->
          History(Block(64 - k, "Pd 7", DefaultGroups)
                  \o Block(64 - k, "Pd 8", Tail(DefaultGroups))),
      tz |-> NoChange] : c \in {1}, k \in {20, 25}}

\* A horizon of one day, Friday 64. Periods 1 and 4 were given to the whole
\* roster 28 days before, period 7 to A and B 28 days before and to the other
\* groups 22 days before.
FourWeeksInputs ==
    {[startDate |-> 64, dayCycle |-> 1, daysOff |-> 67..70, weeks |-> 1,
      scheduleHistory |->
          History(Block(36, "Pd 1", DefaultGroups)
                  \o Block(36, "Pd 4", DefaultGroups)
                  \o Block(36, "Pd 7", SubSeq(DefaultGroups, 1, 2))
                  \o Block(42, "Pd 7", SubSeq(DefaultGroups, 3, 22))),
      tz |-> z] : z \in ChangeBefore}

\* A history that names 22 custom groups, followed by four more records in
\* any order: three dates for G1 in period 1 and a make-up lesson.
ExtraRecords ==
    <<[date |-> 52, period |-> "Pd 1", group |-> "G1"],
      [date |-> 54, period |-> "1", group |-> "G1"],
      [date |-> 50, period |-> "Pd 1", group |-> "G1"],
      [date |-> 56, period |-> "Pd 1", group |-> MU]>>

Permutations4 ==
    {q \in [1..4 -> 1..4] : \A i, j \in 1..4 : q[i] = q[j] => i = j}

CustomInputs ==
    {[startDate |-> 60, dayCycle |-> 1, daysOff |-> {}, weeks |-> 1,
      scheduleHistory |->
          History(Block(51, "Pd 1", CustomGroups)
                  \o [i \in 1..4 |-> ExtraRecords[q[i]]]),
      tz |-> NoChange] : q \in Permutations4}

\* Histories from which no roster of 22 can be inferred: an empty list, 21
\* distinct names (twenty custom names and the letter A) with a make-up
\* record, and 23 distinct names.
MismatchHistories ==
    {<<>>,
     Block(51, "Pd 1", SubSeq(CustomGroups, 1, 20))
         \o <<[date |-> 51, period |-> "Pd 1", group |-> "A"],
              [date |-> 52, period |-> "Pd 1", group |-> MU]>>,
     Block(51, "Pd 1", CustomGroups)
         \o <<[date |-> 51, period |-> "Pd 1", group |-> "A"]>>}

MismatchInputs ==
    {[startDate |-> 60, dayCycle |-> 1, daysOff |-> {}, weeks |-> 1,
      scheduleHistory |-> History(h), tz |-> NoChange] : h \in MismatchHistories}

\* Records that lack a group, a date or a period, and one whose period label
\* is not a number; each is followed by a well-formed record.
MalformedRecords ==
    {[date |-> 52, period |-> "Pd 1", group |-> ""],
     [date |-> Missing, period |-> "Pd 1", group |-> "G2"],
     [date |-> 52, period |-> "", group |-> "G2"],
     [date |-> 52, period |-> "Lunch", group |-> "G2"]}

MalformedInputs ==
    {[startDate |-> 60, dayCycle |-> 1, daysOff |-> {}, weeks |-> 1,
      scheduleHistory |->
          History(Block(51, "Pd 1", CustomGroups)
                  \o <<r, [date |-> 53, period |-> "Pd 1", group |-> "G3"]>>),
      tz |-> NoChange] : r \in MalformedRecords}

\* A horizon of one day, Friday 64. Periods 7 and 8 were given to the whole
\* roster 22 days before: the 28-day pass gives periods 1 and 4 to groups,
\* takes them back and fails; the 21-day pass succeeds.
RetryInputs ==
    {[startDate |-> 64, dayCycle |-> 1, daysOff |-> 67..70, weeks |-> 1,
      scheduleHistory |->
          History(Block(42, "Pd 7", DefaultGroups)
                  \o Block(42, "Pd 8", DefaultGroups)),
      tz |-> NoChange]}

Inputs ==
    PlainInputs \cup ChangeInputs \cup BlockInputs \cup SeedInputs
    \cup OneDayInputs \cup FourWeeksInputs \cup CustomInputs
    \cup MismatchInputs \cup MalformedInputs \cup RetryInputs

---------------------------------------------------------------------------
(* The state machine *)

\* The four mutable arguments of solve.
Mutable == <<schedule, weeklyAssignments, periodAssignments, muDays>>

\* An activation of solve: the sorted candidates, the position k of the for
\* loop, and the locals addedToWeek and previousDate of the trial in hand.
\* atEntry and beforeTrial are history fields the code does not have: the
\* mutable arguments as they were when solve was called, and as they were
\* when the trial in hand was applied (<<>> before the first trial).
Frame(cands) ==
    [candidates |-> cands, k |-> 1, addedToWeek |-> FALSE, previousDate |-> Null,
     atEntry |-> Mutable, beforeTrial |-> <<>>]

Top == stack[Len(stack)]
Pop(st) == SubSeq(st, 1, Len(st) - 1)

\* A variant of TopSlot that is always the first slot.
TopSlot_First == slots[1]

\* The slot of the frame on top of the stack.
TopSlot == slots[Len(stack)]

\* The builder is constructed by a caller that is not the page.
NoPage == [checked |-> FALSE, rows |-> <<>>, west |-> FALSE]

\* The state after lines 31-72 of the constructor: the roster is fixed and
\* the seed memory holds an empty object for every roster group.
Init ==
    /\ \E in \in Inputs :
        /\ startDate = in.startDate
        /\ dayCycle = in.dayCycle
        /\ daysOff = in.daysOff
        /\ weeks = in.weeks
        /\ scheduleHistory = in.scheduleHistory
        /\ tz = in.tz
    /\ LESSON_GROUPS = RosterOf(scheduleHistory)
    /\ initialPeriodAssignments = [g \in Range(LESSON_GROUPS) |-> EmptyObject]
    /\ histPos = 0
    /\ pc = "construct"
    /\ slots = <<>>
    /\ dayRule = Undefined
    /\ schedule = <<>>
    /\ weeklyAssignments = EmptyObject
    /\ periodAssignments = EmptyObject
    /\ muDays = {}
    /\ stack = <<>>
    /\ console = <<>>
    /\ result = <<>>
    /\ poolCurrentDate = Undefined
    /\ groupSets = <<>>
    /\ groupsForCycle = <<>>
    /\ weeklyLessonCount = 0
    /\ usedGroupsThisWeek = {}
    /\ entry = Null
    /\ earlierResults = <<>>
    /\ page = NoPage

\* Lines 73-74 and one pass of the forEach of _populateAssignmentsFromHistory.
Ingest ==
    /\ pc = "construct"
    /\ ~scheduleHistory.null
    /\ histPos < Len(scheduleHistory.list)
    /\ initialPeriodAssignments' =
           PopulateOne(initialPeriodAssignments,
                       scheduleHistory.list[histPos + 1], tz)
    /\ histPos' = histPos + 1
    /\ UNCHANGED <<page, earlierResults, pools, inputs, LESSON_GROUPS, search, pc>>

\* The constructor returns.
Constructed ==
    /\ pc = "construct"
    /\ scheduleHistory.null \/ histPos = Len(scheduleHistory.list)
    /\ pc' = "ready"
    /\ UNCHANGED <<page, earlierResults, pools, inputs, builder, search>>

\* buildSchedule, lines 275-304: the slots, the working state, the first call
\* of solve.
Begin ==
    /\ pc = "ready"
    /\ slots' = generateAllSlots(startDate, dayCycle, daysOff, weeks)
    /\ IF Len(slots') = 0
       THEN /\ pc' = "done"
            /\ result' = <<>>
            /\ UNCHANGED <<dayRule, schedule, weeklyAssignments,
                           periodAssignments, muDays, stack, console>>
       ELSE /\ pc' = "call"
            /\ weeklyAssignments' = EmptyObject
            /\ muDays' = {}
            /\ periodAssignments' = JsonCopy(initialPeriodAssignments)
            /\ schedule' = <<>>
            /\ dayRule' = PERFECT_SCHEDULE_DAY_RULE
            /\ stack' = <<>>
            /\ console' = Append(console, PERFECT_SCHEDULE_DAY_RULE)
            /\ UNCHANGED result
    /\ UNCHANGED <<page, earlierResults, pools, inputs, builder>>

\* solve, line 184: index >= slots.length.
SolveBase ==
    /\ pc = "call"
    /\ Len(stack) >= Len(slots)
    /\ pc' = "returnTrue"
    /\ UNCHANGED <<page, earlierResults, pools, inputs, builder, search>>

\* solve, lines 186-200: the week's set is created, the candidates sorted.
SolveEnter ==
    /\ pc = "call"
    /\ Len(stack) < Len(slots)
    /\ LET slot == slots[Len(stack) + 1]
           weekId == getWeekIdentifier(slot.date)
       IN  /\ weeklyAssignments' =
                  IF weekId \in DOMAIN weeklyAssignments
                  THEN weeklyAssignments
                  ELSE Put(weeklyAssignments, weekId, {})
           /\ stack' = Append(stack,
                  Frame(Candidates(LESSON_GROUPS, periodAssignments, slot.period)))
    /\ pc' = "loop"
    /\ UNCHANGED <<page, earlierResults, pools, inputs, builder, slots, dayRule, schedule,
                   periodAssignments, muDays, console, result>>

\* solve, lines 202-252: the for loop advances to the next valid candidate,
\* applies it and calls solve for the next slot.
Apply ==
    /\ pc = "loop"
    /\ LET slot == TopSlot
           j == NextValid(Top, slot, weeklyAssignments, periodAssignments,
                          muDays, dayRule)
           group == Top.candidates[j]
           weekId == getWeekIdentifier(slot.date)
       IN  /\ j # 0
           /\ schedule' = WithLesson(schedule, slot, group)
           /\ IF group = MU
              THEN /\ muDays' = muDays \cup {slot.date}
                   /\ stack' = [stack EXCEPT ![Len(stack)] =
                          [@ EXCEPT !.k = j, !.addedToWeek = FALSE,
                                    !.previousDate = Null,
                                    !.beforeTrial = Mutable]]
                   /\ UNCHANGED <<weeklyAssignments, periodAssignments>>
              ELSE /\ weeklyAssignments' =
                          [weeklyAssignments EXCEPT ![weekId] = @ \cup {group}]
                   /\ periodAssignments' =
                          [periodAssignments EXCEPT ![group] =
                              Put(@, slot.period, slot.date)]
                   /\ stack' = [stack EXCEPT ![Len(stack)] =
                          [@ EXCEPT !.k = j,
                                    !.addedToWeek = group \notin weeklyAssignments[weekId],
                                    !.previousDate =
                                        LastDate(periodAssignments, group, slot.period),
                                    !.beforeTrial = Mutable]]
                   /\ UNCHANGED muDays
    /\ pc' = "call"
    /\ UNCHANGED <<page, earlierResults, pools, inputs, builder, slots, dayRule, console, result>>

\* solve, line 271: no candidate is left, return false.
Exhausted ==
    /\ pc = "loop"
    /\ NextValid(Top, TopSlot, weeklyAssignments, periodAssignments,
                 muDays, dayRule) = 0
    /\ stack' = Pop(stack)
    /\ pc' = "returnFalse"
    /\ UNCHANGED <<page, earlierResults, pools, inputs, builder, slots, dayRule, schedule, weeklyAssignments,
                   periodAssignments, muDays, console, result>>

\* solve, lines 243-254: the recursive call returned true, return true.
ReturnTrue ==
    /\ pc = "returnTrue"
    /\ stack # <<>>
    /\ stack' = Pop(stack)
    /\ UNCHANGED <<page, earlierResults, pools, inputs, builder, slots, dayRule, schedule, weeklyAssignments,
                   periodAssignments, muDays, console, result, pc>>

\* A variant of Backtrack that leaves the group in the set of the week.
Backtrack_KeepsWeek ==
    /\ pc = "returnFalse"
    /\ stack # <<>>
    /\ LET slot == TopSlot
           group == Top.candidates[Top.k]
           weekId == getWeekIdentifier(slot.date)
       IN  /\ schedule' = WithoutLesson(schedule, slot)
           /\ IF group = MU
              THEN /\ muDays' = muDays \ {slot.date}
                   /\ UNCHANGED <<weeklyAssignments, periodAssignments>>
              ELSE /\ weeklyAssignments' = weeklyAssignments
                   /\ periodAssignments' =
                          [periodAssignments EXCEPT ![group] =
                              IF Top.previousDate # Null
                              THEN Put(@, slot.period, Top.previousDate)
                              ELSE Delete(@, slot.period)]
                   /\ UNCHANGED muDays
    /\ stack' = [stack EXCEPT ![Len(stack)] =
           [@ EXCEPT !.k = @ + 1, !.addedToWeek = FALSE, !.previousDate = Null]]
    /\ pc' = "loop"
    /\ UNCHANGED <<page, earlierResults, pools, inputs, builder, slots, dayRule, console, result>>

\* A variant of Backtrack whose for loop stays at the candidate it undid.
Backtrack_SameCandidate ==
    /\ pc = "returnFalse"
    /\ stack # <<>>
    /\ LET slot == TopSlot
           group == Top.candidates[Top.k]
           weekId == getWeekIdentifier(slot.date)
       IN  /\ schedule' = WithoutLesson(schedule, slot)
           /\ IF group = MU
              THEN /\ muDays' = muDays \ {slot.date}
                   /\ UNCHANGED <<weeklyAssignments, periodAssignments>>
              ELSE /\ weeklyAssignments' =
                          IF Top.addedToWeek
                          THEN [weeklyAssignments EXCEPT ![weekId] = @ \ {group}]
                          ELSE weeklyAssignments
                   /\ periodAssignments' =
                          [periodAssignments EXCEPT ![group] =
                              IF Top.previousDate # Null
                              THEN Put(@, slot.period, Top.previousDate)
                              ELSE Delete(@, slot.period)]
                   /\ UNCHANGED muDays
    /\ stack' = [stack EXCEPT ![Len(stack)] =
           [@ EXCEPT !.addedToWeek = FALSE, !.previousDate = Null]]
    /\ pc' = "loop"
    /\ UNCHANGED <<page, earlierResults, pools, inputs, builder, slots, dayRule, console,
                   result>>

\* A variant of Backtrack that leaves the trial's date in the period memory.
Backtrack_NoRestore ==
    /\ pc = "returnFalse"
    /\ stack # <<>>
    /\ LET slot == TopSlot
           group == Top.candidates[Top.k]
           weekId == getWeekIdentifier(slot.date)
       IN  /\ schedule' = WithoutLesson(schedule, slot)
           /\ IF group = MU
              THEN /\ muDays' = muDays \ {slot.date}
                   /\ UNCHANGED <<weeklyAssignments, periodAssignments>>
              ELSE /\ weeklyAssignments' =
                          IF Top.addedToWeek
                          THEN [weeklyAssignments EXCEPT ![weekId] = @ \ {group}]
                          ELSE weeklyAssignments
                   /\ UNCHANGED <<periodAssignments, muDays>>
    /\ stack' = [stack EXCEPT ![Len(stack)] =
           [@ EXCEPT !.k = @ + 1, !.addedToWeek = FALSE, !.previousDate = Null]]
    /\ pc' = "loop"
    /\ UNCHANGED <<page, earlierResults, pools, inputs, builder, slots, dayRule, console, result>>

\* solve, lines 257-268: the recursive call returned false, undo the trial;
\* the for loop goes on with the next candidate.
Backtrack ==
    /\ pc = "returnFalse"
    /\ stack # <<>>
    /\ LET slot == TopSlot
           group == Top.candidates[Top.k]
           weekId == getWeekIdentifier(slot.date)
       IN  /\ schedule' = WithoutLesson(schedule, slot)
           /\ IF group = MU
              THEN /\ muDays' = muDays \ {slot.date}
                   /\ UNCHANGED <<weeklyAssignments, periodAssignments>>
              ELSE /\ weeklyAssignments' =
                          IF Top.addedToWeek
                          THEN [weeklyAssignments EXCEPT ![weekId] = @ \ {group}]
                          ELSE weeklyAssignments
                   /\ periodAssignments' =
                          [periodAssignments EXCEPT ![group] =
                              IF Top.previousDate # Null
                              THEN Put(@, slot.period, Top.previousDate)
                              ELSE Delete(@, slot.period)]
                   /\ UNCHANGED muDays
    /\ stack' = [stack EXCEPT ![Len(stack)] =
           [@ EXCEPT !.k = @ + 1, !.addedToWeek = FALSE, !.previousDate = Null]]
    /\ pc' = "loop"
    /\ UNCHANGED <<page, earlierResults, pools, inputs, builder, slots, dayRule, console, result>>

\* A variant of Succeed that leaves the memory of the run in the builder.
Succeed_SavesMemory ==
    /\ pc = "returnTrue"
    /\ stack = <<>>
    /\ result' = schedule
    /\ initialPeriodAssignments' = periodAssignments
    /\ pc' = "done"
    /\ UNCHANGED <<page, earlierResults, pools, inputs, LESSON_GROUPS, histPos, slots, dayRule,
                   schedule, weeklyAssignments, periodAssignments, muDays, stack,
                   console>>

\* buildSchedule, lines 305-306 and 337-338: return schedule.
Succeed ==
    /\ pc = "returnTrue"
    /\ stack = <<>>
    /\ result' = schedule
    /\ pc' = "done"
    /\ UNCHANGED <<page, earlierResults, pools, inputs, builder, slots, dayRule, schedule, weeklyAssignments,
                   periodAssignments, muDays, stack, console>>

\* The reset of lines 309-322 with the history's dates lost: the relaxed pass
\* would start from an empty memory.
Relax_NoSeeds ==
    /\ pc = "returnFalse"
    /\ stack = <<>>
    /\ dayRule = PERFECT_SCHEDULE_DAY_RULE
    /\ schedule' = <<>>
    /\ weeklyAssignments' = EmptyObject
    /\ muDays' = {}
    /\ periodAssignments' = [g \in DOMAIN initialPeriodAssignments |-> EmptyObject]
    /\ dayRule' = HIGH_QUALITY_DAY_RULE
    /\ console' = Append(console, HIGH_QUALITY_DAY_RULE)
    /\ pc' = "call"
    /\ UNCHANGED <<page, earlierResults, pools, inputs, builder, slots, stack, result>>

\* A variant of Relax that hands the memory of the failed pass to the second.
Relax_KeepMemory ==
    /\ pc = "returnFalse"
    /\ stack = <<>>
    /\ dayRule = PERFECT_SCHEDULE_DAY_RULE
    /\ schedule' = <<>>
    /\ weeklyAssignments' = EmptyObject
    /\ muDays' = {}
    /\ dayRule' = HIGH_QUALITY_DAY_RULE
    /\ console' = Append(console, HIGH_QUALITY_DAY_RULE)
    /\ pc' = "call"
    /\ UNCHANGED <<page, earlierResults, pools, inputs, builder, slots, stack, result, periodAssignments>>

\* buildSchedule, lines 309-336: the 28-day pass failed; reset and call solve
\* with the 21-day rule.
Relax ==
    /\ pc = "returnFalse"
    /\ stack = <<>>
    /\ dayRule = PERFECT_SCHEDULE_DAY_RULE
    /\ schedule' = <<>>
    /\ weeklyAssignments' = EmptyObject
    /\ muDays' = {}
    /\ periodAssignments' = JsonCopy(initialPeriodAssignments)
    /\ dayRule' = HIGH_QUALITY_DAY_RULE
    /\ console' = Append(console, HIGH_QUALITY_DAY_RULE)
    /\ pc' = "call"
    /\ UNCHANGED <<page, earlierResults, pools, inputs, builder, slots, stack, result>>

\* buildSchedule, line 340: return [].
GiveUp ==
    /\ pc = "returnFalse"
    /\ stack = <<>>
    /\ dayRule = HIGH_QUALITY_DAY_RULE
    /\ result' = <<>>
    /\ pc' = "done"
    /\ UNCHANGED <<page, earlierResults, pools, inputs, builder, slots, dayRule, schedule, weeklyAssignments,
                   periodAssignments, muDays, stack, console>>

Next ==
    \/ Ingest
    \/ Constructed
    \/ Begin
    \/ SolveBase
    \/ SolveEnter
    \/ Apply
    \/ Exhausted
    \/ ReturnTrue
    \/ Backtrack
    \/ Succeed
    \/ Relax
    \/ GiveUp

Spec == Init /\ [][Next]_vars

\* The program runs on: a step that can be taken is taken. JavaScript runs
\* the constructor and buildSchedule to completion, with nothing to wait for.
\* Weak fairness of the steps outside solve, and of the steps of solve, whose
\* enabling condition is written out from their guards: a call with a slot
\* left, the for loop, or a recursive call that returned false to a caller.
LiveSpec ==
    /\ Spec
    /\ WF_vars(Ingest \/ Constructed \/ Begin \/ SolveBase \/ ReturnTrue
                  \/ Succeed \/ Relax \/ GiveUp)
    /\ \/ []<>(~(\/ pc = "call" /\ Len(stack) < Len(slots)
                 \/ pc = "loop"
                 \/ pc = "returnFalse" /\ stack # <<>>))
       \/ []<><<SolveEnter \/ Apply \/ Exhausted \/ Backtrack>>_vars

---------------------------------------------------------------------------
(* buildSchedule called again on the same builder *)

\* The most calls of buildSchedule on one builder.
MaxCalls == 2

\* The inputs of the builders that are called more than once: horizons of
\* at most a week, with and without a history, with one pass and with two.
AgainInputs ==
    [startDate : StartDates, dayCycle : {1, 2}, daysOff : {{}},
     weeks : {0, 1}, scheduleHistory : {NoHistory}, tz : {NoChange}]
    \cup BlockInputs \cup OneDayInputs \cup FourWeeksInputs \cup RetryInputs

AgainInit ==
    /\ Init
    /\ [startDate |-> startDate, dayCycle |-> dayCycle, daysOff |-> daysOff,
        weeks |-> weeks, scheduleHistory |-> scheduleHistory, tz |-> tz]
           \in AgainInputs

\* The caller keeps what buildSchedule returned and calls it again.
CallAgain ==
    /\ pc = "done"
    /\ Len(earlierResults) + 1 < MaxCalls
    /\ earlierResults' = Append(earlierResults, result)
    /\ pc' = "ready"
    /\ UNCHANGED <<page, pools, inputs, builder, search>>

AgainNext == Next \/ CallAgain

AgainSpec == AgainInit /\ [][AgainNext]_vars

---------------------------------------------------------------------------
(* The rotating-pool builder of src/unnamed/part_000 (lines 711-959): a    *)
(* greedy ScheduleBuilder that fills the slots day by day from five        *)
(* rotating sets of groups, with a final guard on the 28-day rule.  It     *)
(* keeps its memory in this.periodAssignments and its result in            *)
(* this.schedule; this.dayCycle is the running cycle value.                *)

\* The literals of findBestGroupForPeriod and buildSchedule.
PoolDayRule == 28
WeeklyCap == 22

\* daysSince of a group never seen in the period.
Infinity == 1000000

\* The key this.periodAssignments[group][lesson.period] of a history record:
\* the period as the record gives it. Only a number is a key that
\* findBestGroupForPeriod reads; any other text is a key of its own.
OtherKey == -4
PoolPeriodKey(label) ==
    CASE label = "1" -> 1
      [] label = "2" -> 2
      [] label = "3" -> 3
      [] label = "4" -> 4
      [] label = "5" -> 5
      [] label = "6" -> 6
      [] label = "7" -> 7
      [] label = "8" -> 8
      [] OTHER -> OtherKey

\* Lines 753-769: the roster is the history's names, whatever their number.
PoolRosterOf(history) ==
    IF ~history.null /\ Len(history.list) > 0
    THEN GroupsFromHistory(history.list)
    ELSE DefaultGroups

\* Lines 798-817: the body of the forEach of _populateAssignmentsFromHistory.
PoolPopulateOne(pa, lesson, zone) ==
    IF lesson.group = "" \/ lesson.period = "" \/ lesson.date = Missing
    THEN pa
    ELSE IF lesson.group \in DOMAIN pa
    THEN LET key == PoolPeriodKey(lesson.period)
             existingDate == Get(pa[lesson.group], key)
         IN  [pa EXCEPT ![lesson.group] =
                 Put(@, key, IngestedDate(existingDate, lesson.date, zone))]
    ELSE pa

\* allGroupsCopy.splice(0, n) taken from position from on.
Splice(list, from, n) ==
    SubSeq(list, from, IF from + n - 1 < Len(list) THEN from + n - 1 ELSE Len(list))

\* Lines 785-794: two sets of five and three sets of four.
SplitGroups(roster) ==
    IF Len(roster) > 0
    THEN <<Splice(roster, 1, 5), Splice(roster, 6, 5), Splice(roster, 11, 4),
           Splice(roster, 15, 4), Splice(roster, 19, 4)>>
    ELSE <<>>

\* this.groupSets.flat()
RECURSIVE Flat(_)
Flat(sets) == IF sets = <<>> THEN <<>> ELSE Head(sets) \o Flat(Tail(sets))

\* A variant of RotatedSets that moves the first set and leaves the members
\* of every set where they are.
RotatedSets_SetsOnly(sets) == Append(Tail(sets), Head(sets))

\* setupNextGroupCycle, lines 821-826: the first set goes last, and in every
\* set of more than one group the first group goes last.
RotatedSets(sets) ==
    LET moved == Append(Tail(sets), Head(sets))
    IN  [i \in 1..Len(moved) |->
            IF Len(moved[i]) > 1 THEN Append(Tail(moved[i]), Head(moved[i]))
            ELSE moved[i]]

\* Lines 838-842, in hours: (date - lastAssignmentDate), Infinity when the
\* group has no date in the period.
DaysSince(pa, group, period, date) ==
    IF Get(pa[group], period) = Undefined THEN Infinity
    ELSE Stamp(tz, date) - Stamp(tz, Get(pa[group], period))

\* A variant of findBestGroupForPeriod whose strict search wants more than 28
\* days.
findBestGroupForPeriod_Over28(pool, pa, date, period, isMercySearch) ==
    LET since(i) == DaysSince(pa, pool[i], period, date)
        notFound == [group |-> MU, indexInCycle |-> 0, daysSince |-> -HoursPerDay]
        strict == {i \in 1..Len(pool) : since(i) > PoolDayRule * HoursPerDay}
        mercy == {i \in 1..Len(pool) :
                     /\ since(i) > -HoursPerDay
                     /\ \A j \in 1..Len(pool) : since(j) <= since(i)}
        first(S) == CHOOSE i \in S : \A j \in S : i <= j
        found(i) == [group |-> pool[i], indexInCycle |-> i, daysSince |-> since(i)]
    IN  IF ~isMercySearch
        THEN IF strict = {} THEN notFound ELSE found(first(strict))
        ELSE IF mercy = {} THEN notFound ELSE found(first(mercy))

\* findBestGroupForPeriod, lines 830-859. indexInCycle is 0 for "not found".
findBestGroupForPeriod(pool, pa, date, period, isMercySearch) ==
    LET since(i) == DaysSince(pa, pool[i], period, date)
        notFound == [group |-> MU, indexInCycle |-> 0, daysSince |-> -HoursPerDay]
        strict == {i \in 1..Len(pool) : since(i) >= PoolDayRule * HoursPerDay}
        mercy == {i \in 1..Len(pool) :
                     /\ since(i) > -HoursPerDay
                     /\ \A j \in 1..Len(pool) : since(j) <= since(i)}
        first(S) == CHOOSE i \in S : \A j \in S : i <= j
        found(i) == [group |-> pool[i], indexInCycle |-> i, daysSince |-> since(i)]
    IN  IF ~isMercySearch
        THEN IF strict = {} THEN notFound ELSE found(first(strict))
        ELSE IF mercy = {} THEN notFound ELSE found(first(mercy))

\* weeklyAvailableGroups, lines 895-900.
weeklyAvailableGroups(groupPool, used, usedToday) ==
    SelectSeq(groupPool, LAMBDA g : g \notin used /\ g \notin usedToday)

\* Lines 902-928: the three tiers.
Waterfall(cycle, roster, pa, used, usedToday, date, period) ==
    LET tier1 == findBestGroupForPeriod(
                     weeklyAvailableGroups(cycle, used, usedToday),
                     pa, date, period, FALSE)
        tier2 == findBestGroupForPeriod(
                     weeklyAvailableGroups(roster, used, usedToday),
                     pa, date, period, FALSE)
        tier3 == findBestGroupForPeriod(
                     weeklyAvailableGroups(roster, used, usedToday),
                     pa, date, period, TRUE)
    IN  IF tier1.group # MU THEN tier1
        ELSE IF tier2.group # MU THEN tier2
        ELSE tier3

\* A variant of FinalGuard that commits whatever group the tiers picked.
FinalGuard_Off(assignment) == assignment.group # MU

\* Lines 931-934: the final guard.
FinalGuard(assignment) ==
    /\ assignment.group # MU
    /\ assignment.daysSince >= PoolDayRule * HoursPerDay

\* groupsForCycle.splice(groupsForCycle.indexOf(group), 1) when it is there.
WithoutFirst(list, group) ==
    IF \E i \in 1..Len(list) : list[i] = group
    THEN LET at == CHOOSE i \in 1..Len(list) :
                       list[i] = group /\ \A j \in 1..(i - 1) : list[j] # group
         IN  SubSeq(list, 1, at - 1) \o SubSeq(list, at + 1, Len(list))
    ELSE list

\* Inputs of the rotating-pool builder. Its histories give the period as a
\* number.
PoolPlainInputs ==
    [startDate : {60, 62, 65}, dayCycle : {1, 2}, daysOff : DaysOffChoices,
     weeks : {1, MaxWeeks}, scheduleHistory : {NoHistory}, tz : {NoChange}]

\* The whole default roster had period 1 k days before a Monday start, and
\* periods 7 and 8 of day 64 are closed too when k is 27.
PoolBlockInputs ==
    {[startDate |-> 67, dayCycle |-> c, daysOff |-> {}, weeks |-> w,
      scheduleHistory |->
          History(Block(67 - k, "1", DefaultGroups)
                  \o Block(67 - k, "7", DefaultGroups)
                  \o Block(67 - k, "8", SubSeq(DefaultGroups, 1, 21))),
      tz |-> z] : c \in {1, 2}, w \in {1, MaxWeeks}, k \in {27, 28}, z \in ChangeBefore}

\* A roster of custom names, with two dates for G1 in period 1.
PoolCustomInputs ==
    {[startDate |-> 60, dayCycle |-> 1, daysOff |-> {}, weeks |-> w,
      scheduleHistory |->
          History(Block(40, "1", CustomGroups)
                  \o <<[date |-> 54, period |-> "1", group |-> "G1"],
                       [date |-> 50, period |-> "1", group |-> "G1"],
                       [date |-> 56, period |-> "1", group |-> MU]>>),
      tz |-> NoChange] : w \in {1, MaxWeeks}}

\* Two weeks whose second Monday is a day off.
PoolMondayOffInputs ==
    [startDate : {60}, dayCycle : {1, 2}, daysOff : {{67}, {67, 68}},
     weeks : {2}, scheduleHistory : {NoHistory}, tz : {NoChange}]

PoolInputs ==
    PoolPlainInputs \cup PoolBlockInputs \cup PoolCustomInputs
        \cup PoolMondayOffInputs

\* The state after lines 732-773 of the constructor.
PoolInit ==
    /\ \E in \in PoolInputs :
        /\ startDate = in.startDate
        /\ dayCycle = in.dayCycle
        /\ daysOff = in.daysOff
        /\ weeks = in.weeks
        /\ scheduleHistory = in.scheduleHistory
        /\ tz = in.tz
    /\ LESSON_GROUPS = PoolRosterOf(scheduleHistory)
    /\ periodAssignments = [g \in Range(LESSON_GROUPS) |-> EmptyObject]
    /\ histPos = 0
    /\ pc = "construct"
    /\ schedule = <<>>
    /\ groupSets = <<>>
    /\ poolCurrentDate = Undefined
    /\ groupsForCycle = <<>>
    /\ weeklyLessonCount = 0
    /\ usedGroupsThisWeek = {}
    /\ entry = Null
    /\ earlierResults = <<>>
    /\ page = NoPage
    /\ result = <<>>
    /\ initialPeriodAssignments = EmptyObject
    /\ slots = <<>>
    /\ dayRule = Undefined
    /\ weeklyAssignments = EmptyObject
    /\ muDays = {}
    /\ stack = <<>>
    /\ console = <<>>

\* What the rotating-pool builder does not have.
idle == <<initialPeriodAssignments, slots, dayRule, weeklyAssignments, muDays,
          stack, console>>

\* Lines 776-782: one pass of the forEach of _populateAssignmentsFromHistory.
PoolIngest ==
    /\ pc = "construct"
    /\ ~scheduleHistory.null
    /\ histPos < Len(scheduleHistory.list)
    /\ periodAssignments' =
           PoolPopulateOne(periodAssignments, scheduleHistory.list[histPos + 1], tz)
    /\ histPos' = histPos + 1
    /\ UNCHANGED <<page, earlierResults, idle, inputs, LESSON_GROUPS, pools, schedule, result, pc>>

\* Lines 784-795: the group sets; the constructor returns.
PoolConstructed ==
    /\ pc = "construct"
    /\ scheduleHistory.null \/ histPos = Len(scheduleHistory.list)
    /\ groupSets' = SplitGroups(LESSON_GROUPS)
    /\ pc' = "ready"
    /\ UNCHANGED <<page, earlierResults, idle, inputs, builder, periodAssignments, schedule, result,
                   poolCurrentDate, groupsForCycle, weeklyLessonCount,
                   usedGroupsThisWeek, entry>>

\* buildSchedule, lines 862-867.
PoolBegin ==
    /\ pc = "ready"
    /\ poolCurrentDate' = startDate
    /\ groupsForCycle' = Flat(groupSets)
    /\ weeklyLessonCount' = 0
    /\ usedGroupsThisWeek' = {}
    /\ pc' = "day"
    /\ UNCHANGED <<page, earlierResults, idle, inputs, builder, periodAssignments, schedule, result,
                   groupSets, entry>>

\* A variant of PoolDay that resets the week only on a Monday with lessons.
PoolDay_ResetOnSchoolDay ==
    /\ pc = "day"
    /\ poolCurrentDate < startDate + weeks * 7
    /\ IF GetDay(poolCurrentDate) = 1 /\ IsSchoolDay(poolCurrentDate, daysOff)
       THEN weeklyLessonCount' = 0 /\ usedGroupsThisWeek' = {}
       ELSE UNCHANGED <<weeklyLessonCount, usedGroupsThisWeek>>
    /\ IF IsSchoolDay(poolCurrentDate, daysOff)
       THEN /\ entry' = [date |-> poolCurrentDate, lessons |-> <<>>]
            /\ pc' = "period"
            /\ UNCHANGED poolCurrentDate
       ELSE /\ poolCurrentDate' = poolCurrentDate + 1
            /\ UNCHANGED <<entry, pc>>
    /\ UNCHANGED <<page, earlierResults, idle, inputs, builder, periodAssignments, schedule, result,
                   groupSets, groupsForCycle>>

\* Lines 869-879 and 955: the head of the while loop for one calendar day:
\* the Monday reset, and either a new entry or the step to the next day.
PoolDay ==
    /\ pc = "day"
    /\ poolCurrentDate < startDate + weeks * 7
    /\ IF GetDay(poolCurrentDate) = 1
       THEN weeklyLessonCount' = 0 /\ usedGroupsThisWeek' = {}
       ELSE UNCHANGED <<weeklyLessonCount, usedGroupsThisWeek>>
    /\ IF IsSchoolDay(poolCurrentDate, daysOff)
       THEN /\ entry' = [date |-> poolCurrentDate, lessons |-> <<>>]
            /\ pc' = "period"
            /\ UNCHANGED poolCurrentDate
       ELSE /\ poolCurrentDate' = poolCurrentDate + 1
            /\ UNCHANGED <<entry, pc>>
    /\ UNCHANGED <<page, earlierResults, idle, inputs, builder, periodAssignments, schedule, result,
                   groupSets, groupsForCycle>>

\* Lines 884-951: one pass of the for loop over the day's periods.
PoolPeriod ==
    /\ pc = "period"
    /\ Len(entry.lessons) < Len(PeriodsOf(dayCycle))
    /\ LET period == PeriodsOf(dayCycle)[Len(entry.lessons) + 1]
           refill == weeklyLessonCount < WeeklyCap /\ Len(groupsForCycle) = 0
           sets == IF refill THEN RotatedSets(groupSets) ELSE groupSets
           cycle == IF refill THEN Flat(sets) ELSE groupsForCycle
           usedGroupsToday == {entry.lessons[i].group : i \in 1..Len(entry.lessons)}
           assignment == Waterfall(cycle, LESSON_GROUPS, periodAssignments,
                                   usedGroupsThisWeek, usedGroupsToday,
                                   poolCurrentDate, period)
       IN  /\ groupSets' = sets
           /\ IF weeklyLessonCount < WeeklyCap /\ FinalGuard(assignment)
              THEN /\ entry' = [entry EXCEPT !.lessons =
                                   Append(@, Lesson(period, assignment.group))]
                   /\ usedGroupsThisWeek' = usedGroupsThisWeek \cup {assignment.group}
                   /\ periodAssignments' =
                          [periodAssignments EXCEPT ![assignment.group] =
                              Put(@, period, poolCurrentDate)]
                   /\ groupsForCycle' = WithoutFirst(cycle, assignment.group)
              ELSE /\ entry' = [entry EXCEPT !.lessons = Append(@, Lesson(period, MU))]
                   /\ groupsForCycle' = cycle
                   /\ UNCHANGED <<usedGroupsThisWeek, periodAssignments>>
    /\ weeklyLessonCount' = weeklyLessonCount + 1
    /\ UNCHANGED <<page, earlierResults, idle, inputs, builder, schedule, result, poolCurrentDate, pc>>

\* Lines 952-955: the day's entry is pushed, the cycle and the date advance.
PoolEndDay ==
    /\ pc = "period"
    /\ Len(entry.lessons) = Len(PeriodsOf(dayCycle))
    /\ schedule' = Append(schedule, entry)
    /\ dayCycle' = dayCycle + 1
    /\ poolCurrentDate' = poolCurrentDate + 1
    /\ pc' = "day"
    /\ UNCHANGED <<page, earlierResults, idle, startDate, daysOff, weeks, scheduleHistory, tz, builder,
                   periodAssignments, result, groupSets, groupsForCycle,
                   weeklyLessonCount, usedGroupsThisWeek, entry>>

\* Line 957: return this.schedule.
PoolReturn ==
    /\ pc = "day"
    /\ ~(poolCurrentDate < startDate + weeks * 7)
    /\ result' = schedule
    /\ pc' = "done"
    /\ UNCHANGED <<page, earlierResults, idle, inputs, builder, periodAssignments, schedule, pools>>

PoolNext ==
    \/ PoolIngest
    \/ PoolConstructed
    \/ PoolBegin
    \/ PoolDay
    \/ PoolPeriod
    \/ PoolEndDay
    \/ PoolReturn

PoolSpec == PoolInit /\ [][PoolNext]_vars

\* buildSchedule is called again on the same rotating-pool builder. The call
\* returns this.schedule itself; earlierResults keeps what the array held when
\* the call returned.
PoolCallAgain ==
    /\ pc = "done"
    /\ Len(earlierResults) + 1 < MaxCalls
    /\ earlierResults' = Append(earlierResults, result)
    /\ pc' = "ready"
    /\ UNCHANGED <<page, idle, inputs, builder, periodAssignments, schedule,
                   result, pools>>

PoolAgainNext == PoolNext \/ PoolCallAgain

PoolAgainSpec == PoolInit /\ [][PoolAgainNext]_vars

----------------------------------------------------------------------------
(* The page: validateHistory, getScheduleParameters and runScheduler of    *)
(* src/ui_logic.js.  The pasted data is held as its non-blank data lines,  *)
(* each already split into columns by parseScheduleLine: the date column,  *)
(* then the other columns.                                                 *)

\* The browser's zone is this many hours from UTC, to the west or the east.
ZoneHours == 5

\* The numbers of validateHistory: lines 517, 527 and 532.
RequiredGroupsOnPage == 22
MinHistoryDays == 20
MaxHistoryDays == 40

\* A date column that new Date cannot read.
BadDate == [day |-> NaN, iso |-> FALSE]

\* new Date(dateStr).getTime(), in hours of the local clock: text of the form
\* YYYY-MM-DD is read as midnight UTC, any other text as local midnight.
DateOf(cell, west) ==
    IF cell.day = NaN THEN NaN
    ELSE IF cell.iso
    THEN cell.day * HoursPerDay + (IF west THEN -ZoneHours ELSE ZoneHours)
    ELSE cell.day * HoursPerDay

\* The local calendar day of an instant: toDateString, and getFullYear,
\* getMonth and getDate of lines 595-599.
LocalDay(instant) == instant \div HoursPerDay

\* col.toLowerCase().startsWith("pd"), for the columns of the pasted data.
StartsWithPd(col) ==
    col \in {"Pd 1", "Pd 2", "Pd 3", "Pd 4", "Pd 7", "Pd 8", "pd 7", "Pd x"}

\* parseInt(periodStr.replace(/\D/g, ""), 10), for the columns of the pasted
\* data: the digits of the text, NaN when it has none.
DigitsOf(periodStr) ==
    CASE periodStr = "Pd 1" -> 1
      [] periodStr = "Pd 2" -> 2
      [] periodStr = "Pd 3" -> 3
      [] periodStr = "Pd 4" -> 4
      [] periodStr \in {"Pd 7", "pd 7"} -> 7
      [] periodStr = "Pd 8" -> 8
      [] \E i \in 1..REQUIRED_UNIQUE_GROUPS : periodStr = CustomGroups[i] ->
             CHOOSE i \in 1..REQUIRED_UNIQUE_GROUPS : periodStr = CustomGroups[i]
      [] OTHER -> NaN

\* group.toUpperCase(), for the group names of the pasted data: the letters
\* A to V and the names G1 to G22 are upper case already.
ToUpperCase(group) == IF group \in {"mu", "Mu", "mU"} THEN "MU" ELSE group

\* columns.findIndex((col) => col.toLowerCase().startsWith("pd")), counted in
\* the columns after the date; 0 when there is none.
FirstPeriodIndex(cells) ==
    IF \E j \in 1..Len(cells) : StartsWithPd(cells[j])
    THEN CHOOSE j \in 1..Len(cells) :
             StartsWithPd(cells[j]) /\ \A k \in 1..(j - 1) : ~StartsWithPd(cells[k])
    ELSE 0

\* validateHistory, lines 491-513: one Period/Group pair, period being the
\* number parsed from periodStr.
ValidatePair(acc, dateObj, periodStr, group, period) ==
    IF periodStr = "" /\ group = "" THEN acc
    ELSE [acc EXCEPT
             !.errors = @ \o (IF period = NaN THEN <<"Invalid period">> ELSE <<>>)
                          \o (IF group = "" THEN <<"Group name is missing">>
                              ELSE <<>>),
             !.uniqueGroups = IF group # "" /\ ToUpperCase(group) # "MU"
                              THEN @ \cup {group} ELSE @,
             !.parsedLessons =
                 IF group # ""
                 THEN Append(@, [date |-> dateObj, period |-> period,
                                 group |-> group])
                 ELSE @]

\* validateHistory, lines 490-514: the loop over the Period/Group pairs of a
\* line.
RECURSIVE ValidatePairs(_, _, _, _)
ValidatePairs(acc, dateObj, cells, j) ==
    IF j > Len(cells) THEN acc
    ELSE ValidatePairs(
             ValidatePair(acc, dateObj, cells[j], cells[j + 1], DigitsOf(cells[j])),
             dateObj, cells, j + 2)

\* What a line adds when it adds nothing but its date.
OnlyDate(dateObj) ==
    [errors |-> <<>>, uniqueGroups |-> {}, parsedLessons |-> <<>>,
     maxDate |-> dateObj]

\* validateHistory, lines 463-515: one pass of the loop over the data lines,
\* as what it adds to errors, uniqueGroups and parsedLessons, and the date it
\* offers to maxDate (Null when the date cannot be parsed).
ValidateColumns(cells, dateObj, firstPeriodIndex) ==
    IF dateObj = NaN
    THEN [OnlyDate(Null) EXCEPT !.errors = <<"Could not parse date">>]
    ELSE IF \/ firstPeriodIndex = 0
            \/ (Len(cells) - firstPeriodIndex + 1) % 2 # 0
    THEN [OnlyDate(dateObj) EXCEPT !.errors = <<"Invalid column structure">>]
    ELSE ValidatePairs(OnlyDate(dateObj), dateObj, cells, firstPeriodIndex)

ValidateLine(line, west) ==
    ValidateColumns(line.cells, DateOf(line.date, west), FirstPeriodIndex(line.cells))

\* What two stretches of lines add, one after the other.
Together(here, rest) ==
    [errors |-> here.errors \o rest.errors,
     uniqueGroups |-> here.uniqueGroups \cup rest.uniqueGroups,
     parsedLessons |-> here.parsedLessons \o rest.parsedLessons,
     maxDate |-> IF rest.maxDate = Null \/ here.maxDate > rest.maxDate
                 THEN here.maxDate ELSE rest.maxDate]

\* The loop over the data lines from line i on.
RECURSIVE ValidateLines(_, _, _)
ValidateLines(dataLines, i, west) ==
    IF i > Len(dataLines) THEN OnlyDate(Null)
    ELSE Together(ValidateLine(dataLines[i], west),
                  ValidateLines(dataLines, i + 1, west))

\* validateHistory, lines 517-538: the checks of the whole paste. The days
\* are counted only when a lesson was parsed.
OverallErrors(uniqueGroupCount, lessonCount, uniqueDayCount) ==
    (IF uniqueGroupCount # RequiredGroupsOnPage THEN <<"unique groups">> ELSE <<>>)
        \o (IF lessonCount > 0 /\ uniqueDayCount < MinHistoryDays
            THEN <<"at least 4 weeks">> ELSE <<>>)
        \o (IF lessonCount > 0 /\ uniqueDayCount > MaxHistoryDays
            THEN <<"not more than 8 weeks">> ELSE <<>>)

UniqueDays(parsedLessons) ==
    {LocalDay(parsedLessons[k].date) : k \in 1..Len(parsedLessons)}

ValidatedAs(acc) ==
    [errors |-> acc.errors
                    \o OverallErrors(Cardinality(acc.uniqueGroups),
                                     Len(acc.parsedLessons),
                                     Cardinality(UniqueDays(acc.parsedLessons))),
     uniqueGroups |-> acc.uniqueGroups,
     maxDate |-> acc.maxDate]

\* validateHistory, lines 438-540.
validateHistory(text, west) ==
    IF text = <<>>
    THEN [errors |-> <<"History data cannot be empty">>, uniqueGroups |-> {},
          maxDate |-> Null]
    ELSE ValidatedAs(ValidateLines(text, 1, west))

\* getScheduleParameters, lines 600-614: one pair; the period of a record is
\* the number parsed.
ParsePair(parsedHistory, formattedDate, periodStr, group, period) ==
    IF periodStr # "" /\ group # "" /\ period # NaN
    THEN Append(parsedHistory,
                [date |-> formattedDate, period |-> ToString(period),
                 group |-> group])
    ELSE parsedHistory

RECURSIVE ParsePairs(_, _, _, _)
ParsePairs(parsedHistory, formattedDate, cells, i) ==
    IF i > Len(cells) THEN parsedHistory
    ELSE ParsePairs(
             ParsePair(parsedHistory, formattedDate, cells[i],
                       IF i + 1 <= Len(cells) THEN cells[i + 1] ELSE "",
                       DigitsOf(cells[i])),
             formattedDate, cells, i + 2)

\* getScheduleParameters, lines 587-617: one line.
ParseColumns(cells, formattedDate, firstPeriodIndex) ==
    IF firstPeriodIndex = 0 THEN <<>>
    ELSE ParsePairs(<<>>, formattedDate, cells, firstPeriodIndex)

\* The loop over the lines from line n on.
RECURSIVE ParseLines(_, _, _)
ParseLines(lines, n, west) ==
    IF n > Len(lines) THEN <<>>
    ELSE ParseColumns(lines[n].cells, LocalDay(DateOf(lines[n].date, west)),
                      FirstPeriodIndex(lines[n].cells))
             \o ParseLines(lines, n + 1, west)

\* getScheduleParameters, lines 564-576: the start date error, and the alert
\* when there is any error.
HasErrors(checkedHistory, start) ==
    \/ Len(checkedHistory.errors) > 0
    \/ /\ checkedHistory.maxDate # Null
       /\ start * HoursPerDay <= checkedHistory.maxDate

\* getScheduleParameters, lines 542-620: alert when it returns null, else the
\* scheduleHistory of the parameters.
getScheduleParameters(pg, start) ==
    IF ~pg.checked THEN [alert |-> FALSE, scheduleHistory |-> NoHistory]
    ELSE IF HasErrors(validateHistory(pg.rows, pg.west), start)
    THEN [alert |-> TRUE, scheduleHistory |-> NoHistory]
    ELSE [alert |-> FALSE,
          scheduleHistory |-> History(ParseLines(pg.rows, 1, pg.west))]

\* Pasted data: twenty lines of consecutive days from firstDay on, the names
\* in period 1, the names past the twentieth in period 4 of the first lines,
\* and more columns at the end of the last line.
PasteOf(names, firstDay, iso, more) ==
    [i \in 1..MinHistoryDays |->
        [date |-> [day |-> firstDay + i - 1, iso |-> iso],
         cells |-> <<"Pd 1", names[i]>>
                   \o (IF MinHistoryDays + i <= Len(names)
                       THEN <<"Pd 4", names[MinHistoryDays + i]>> ELSE <<>>)
                   \o (IF i = MinHistoryDays THEN more ELSE <<>>)]]

MoreColumns ==
    {<<>>, <<"Pd 7", "MU">>, <<"Pd 7", "mu">>, <<"pd 7", "Mu">>, <<"Pd x", "A">>,
     <<"Pd 7">>, <<"Pd 7", "">>}

PastedTexts ==
    {PasteOf(names, firstDay, iso, more) :
        names \in {DefaultGroups, CustomGroups, SubSeq(CustomGroups, 1, 21)},
        firstDay \in {30, 41}, iso \in BOOLEAN, more \in MoreColumns}
        \cup {<<>>,
              [PasteOf(CustomGroups, 30, FALSE, <<>>) EXCEPT ![1].date = BadDate],
              SubSeq(PasteOf(CustomGroups, 30, FALSE, <<>>), 1, 19)}

Pages == [checked : BOOLEAN, rows : PastedTexts, west : BOOLEAN]

\* The page is filled in: a Monday start, one week, no days off.
UiInit ==
    /\ page \in Pages
    /\ startDate = 60
    /\ dayCycle = 1
    /\ daysOff = {}
    /\ weeks = 1
    /\ scheduleHistory = NoHistory
    /\ tz = NoChange
    /\ LESSON_GROUPS = <<>>
    /\ initialPeriodAssignments = EmptyObject
    /\ histPos = 0
    /\ pc = "page"
    /\ slots = <<>>
    /\ dayRule = Undefined
    /\ schedule = <<>>
    /\ weeklyAssignments = EmptyObject
    /\ periodAssignments = EmptyObject
    /\ muDays = {}
    /\ stack = <<>>
    /\ console = <<>>
    /\ result = <<>>
    /\ poolCurrentDate = Undefined
    /\ groupSets = <<>>
    /\ groupsForCycle = <<>>
    /\ weeklyLessonCount = 0
    /\ usedGroupsThisWeek = {}
    /\ entry = Null
    /\ earlierResults = <<>>

\* runScheduler, lines 398-399: getScheduleParameters returns null.
UiAlert ==
    /\ pc = "page"
    /\ getScheduleParameters(page, startDate).alert
    /\ pc' = "alert"
    /\ UNCHANGED <<page, earlierResults, pools, inputs, builder, search>>

\* runScheduler, lines 398-409, and lines 31-72 of the constructor it calls.
UiRun ==
    /\ pc = "page"
    /\ ~getScheduleParameters(page, startDate).alert
    /\ scheduleHistory' = getScheduleParameters(page, startDate).scheduleHistory
    /\ LESSON_GROUPS' = RosterOf(scheduleHistory')
    /\ initialPeriodAssignments' = [g \in Range(LESSON_GROUPS') |-> EmptyObject]
    /\ histPos' = 0
    /\ pc' = "construct"
    /\ UNCHANGED <<page, earlierResults, pools, startDate, dayCycle, daysOff,
                   weeks, tz, search>>

UiNext ==
    \/ UiAlert
    \/ UiRun
    \/ Ingest
    \/ Constructed

UiSpec == UiInit /\ [][UiNext]_vars

---------------------------------------------------------------------------
(* What the properties speak of: calendar days, the returned lessons in    *)
(* order, the dates the history gives.                                     *)

Returned == pc = "done"

\* The slot list of the builder's inputs.
AllSlots == generateAllSlots(startDate, dayCycle, daysOff, weeks)

\* The lessons of the day entries, in order.
RECURSIVE Flatten(_)
Flatten(sched) ==
    IF sched = <<>> THEN <<>>
    ELSE [i \in 1..Len(Head(sched).lessons) |->
             [date |-> Head(sched).date,
              period |-> Head(sched).lessons[i].period,
              group |-> Head(sched).lessons[i].group]]
         \o Flatten(Tail(sched))

PeriodLabel(period) == "Pd " \o ToString(period)

\* The number of the Monday-to-Sunday week of a day (day 4 is a Monday).
WeekOf(d) == (d + 3) \div 7

\* Saturdays and Sundays (day 2 is Saturday 3 January 1970).
IsWeekend(d) == d % 7 \in {2, 3}

\* The threshold of the pass that produced the result.
ActiveThreshold ==
    IF console = <<PERFECT_SCHEDULE_DAY_RULE>>
    THEN PERFECT_SCHEDULE_DAY_RULE
    ELSE HIGH_QUALITY_DAY_RULE

\* The dates of the history records of a group in a period.
HistoryDates(g, p) ==
    {scheduleHistory.list[i].date : i \in
        {n \in 1..Len(scheduleHistory.list) :
            /\ scheduleHistory.list[n].group = g
            /\ scheduleHistory.list[n].period # ""
            /\ scheduleHistory.list[n].date # Missing
            /\ ParsePeriod(scheduleHistory.list[n].period) = p}}

SetMax(S) == CHOOSE x \in S : \A y \in S : y <= x

LatestInHistory(g, p) ==
    IF HistoryDates(g, p) = {} THEN Undefined ELSE SetMax(HistoryDates(g, p))

SlotPeriods == Range(OddDayPeriods) \cup Range(EvenDayPeriods)

\* Every lesson of a roster group is at least T days after the group's
\* latest history date in the lesson's period.
RespectsSeeds(flat, T) ==
    \A i \in 1..Len(flat) : \A p \in SlotPeriods :
        (/\ flat[i].group # MU
         /\ flat[i].period = PeriodLabel(p)
         /\ LatestInHistory(flat[i].group, p) # Undefined)
        => flat[i].date - LatestInHistory(flat[i].group, p) >= T

\* Any two lessons of a group in the same period are at least T days apart.
Spaced(flat, T) ==
    \A i, j \in 1..Len(flat) :
        (/\ i < j
         /\ flat[i].group # MU
         /\ flat[i].group = flat[j].group
         /\ flat[i].period = flat[j].period)
        => flat[j].date - flat[i].date >= T

---------------------------------------------------------------------------
(* Properties of the returned schedule *)

\* C1: the list buildSchedule returns is empty or complete: its lessons, in
\* order, are one for every slot of generateAllSlots, in slot order, each of
\* a roster group or MU.
C1_EmptyOrComplete ==
    Returned =>
        \/ result = <<>>
        \/ LET flat == Flatten(result)
           IN  /\ Len(flat) = Len(AllSlots)
               /\ \A i \in 1..Len(flat) :
                      /\ flat[i].date = AllSlots[i].date
                      /\ flat[i].period = PeriodLabel(AllSlots[i].period)
                      /\ flat[i].group \in Range(LESSON_GROUPS) \cup {MU}

\* A complete schedule returned by the relaxed pass, after the 28-day pass
\* had assigned and taken back lessons.
C1_Witness ==
    /\ Returned
    /\ result # <<>>
    /\ console = <<PERFECT_SCHEDULE_DAY_RULE, HIGH_QUALITY_DAY_RULE>>

\* C2: in a returned schedule two lessons of a group in the same period are
\* at least T days apart, T the threshold of the pass that produced it.
C2_SpacingInSchedule ==
    (Returned /\ result # <<>>) => Spaced(Flatten(result), ActiveThreshold)

\* A returned schedule in which some group has the same period twice.
C2_Witness ==
    /\ Returned
    /\ LET flat == Flatten(result)
       IN  \E i, j \in 1..Len(flat) :
               /\ i < j
               /\ flat[i].group # MU
               /\ flat[i].group = flat[j].group
               /\ flat[i].period = flat[j].period

\* C3: in the returned schedule no group but MU has two lessons in one
\* Monday-anchored week.
C3_OncePerWeek ==
    Returned =>
        LET flat == Flatten(result)
        IN  \A i, j \in 1..Len(flat) :
                (/\ i < j
                 /\ flat[i].group # MU
                 /\ flat[i].group = flat[j].group)
                => WeekOf(flat[i].date) # WeekOf(flat[j].date)

\* A returned schedule that starts in mid-week, has a day off, and gives some
\* group a lesson in each of two weeks.
C3_Witness ==
    /\ Returned
    /\ startDate = 62
    /\ daysOff # {}
    /\ LET flat == Flatten(result)
       IN  \E i, j \in 1..Len(flat) :
               /\ i < j
               /\ flat[i].group # MU
               /\ flat[i].group = flat[j].group

\* C4: every date of the returned schedule has at most one MU lesson, and no
\* two MU lessons are next to each other in a date's lessons.
C4_MakeUpsApart ==
    Returned =>
        \A d \in 1..Len(result) :
            /\ Cardinality({i \in 1..Len(result[d].lessons) :
                               result[d].lessons[i].group = MU}) <= 1
            /\ \A i \in 1..(Len(result[d].lessons) - 1) :
                   ~(/\ result[d].lessons[i].group = MU
                     /\ result[d].lessons[i + 1].group = MU)

\* A returned schedule for a day whose period 7 the history closed to the
\* whole roster and whose period 8 it left to A alone: period 7 holds MU, and
\* period 8 could not take a second one.
C4_Witness ==
    /\ Returned
    /\ result # <<>>
    /\ result[1].lessons[3].group = MU
    /\ result[1].lessons[4].group = "A"
    /\ \A i \in 2..Len(LESSON_GROUPS) :
           /\ LatestInHistory(LESSON_GROUPS[i], 8) # Undefined
           /\ startDate - LatestInHistory(LESSON_GROUPS[i], 8) < ActiveThreshold

\* The gap in days between the lesson at position i and the previous lesson
\* of its group in its period, or the group's latest history date in that
\* period when the schedule has no earlier one; Undefined when there is
\* neither.
PreviousDate(flat, i) ==
    LET earlier == {flat[j].date : j \in
                       {n \in 1..(i - 1) : /\ flat[n].group = flat[i].group
                                           /\ flat[n].period = flat[i].period}}
        seeds == UNION {HistoryDates(flat[i].group, p) : p \in
                           {q \in SlotPeriods : PeriodLabel(q) = flat[i].period}}
    IN  IF earlier # {} THEN SetMax(earlier)
        ELSE IF seeds # {} THEN SetMax(seeds)
        ELSE Undefined

\* Every lesson of a group is at least T days after the previous one.
AfterPrevious(flat, T) ==
    \A i \in 1..Len(flat) :
        (flat[i].group # MU /\ PreviousDate(flat, i) # Undefined)
        => flat[i].date - PreviousDate(flat, i) >= T

C6_SchoolDaysOnly ==
    Returned =>
        \A d \in 1..Len(result) :
            ~IsWeekend(result[d].date) /\ result[d].date \notin daysOff

\* A schedule that starts on a Saturday and runs over a whole week off.
C6_Witness ==
    /\ Returned
    /\ result # <<>>
    /\ IsWeekend(startDate)
    /\ daysOff = 67..71
    /\ weeks = MaxWeeks

\* C7: a group with a history date s in period p gets no slot of period p
\* dated before s + T, T the threshold of the pass that produced the schedule.
C7_SeedsRespected ==
    (Returned /\ result # <<>>) => RespectsSeeds(Flatten(result), ActiveThreshold)

\* A schedule over five weeks whose period 1 was closed to the whole roster
\* by history dates 15 days before the start: period 1 of the first day goes
\* to MU, and a group gets period 1 once 28 days have passed.
C7_Witness ==
    /\ Returned
    /\ weeks = MaxWeeks
    /\ LET flat == Flatten(result)
       IN  /\ flat # <<>>
           /\ flat[1].period = PeriodLabel(1)
           /\ flat[1].group = MU
           /\ flat[1].date - LatestInHistory("A", 1) = 15
           /\ \E i \in 1..Len(flat) :
                  /\ flat[i].group = "A"
                  /\ flat[i].period = PeriodLabel(1)

---------------------------------------------------------------------------
(* Whether the slots can be filled at all, by the rules in calendar days *)

\* Group g may take slot i after the slots before i were given the groups of
\* assign: MU once a day; a roster group once a week, and in a period only T
\* days or more after its last lesson and its latest history date there.
MayTake(assign, i, g, T) ==
    LET slot == AllSlots[i]
    IN  IF g = MU
        THEN \A j \in 1..(i - 1) :
                 ~(assign[j] = MU /\ AllSlots[j].date = slot.date)
        ELSE /\ \A j \in 1..(i - 1) :
                    assign[j] = g =>
                        /\ WeekOf(AllSlots[j].date) # WeekOf(slot.date)
                        /\ AllSlots[j].period = slot.period
                           => slot.date - AllSlots[j].date >= T
             /\ LatestInHistory(g, slot.period) # Undefined
                => slot.date - LatestInHistory(g, slot.period) >= T

\* Some assignment of roster groups and MU to all the slots extends assign.
RECURSIVE CanComplete(_, _)
CanComplete(assign, T) ==
    \/ Len(assign) = Len(AllSlots)
    \/ \E k \in 1..(Len(LESSON_GROUPS) + 1) :
           LET g == Append(LESSON_GROUPS, MU)[k]
           IN  /\ MayTake(assign, Len(assign) + 1, g, T)
               /\ CanComplete(Append(assign, g), T)

\* C8: the 28-day pass runs first and the 21-day pass at most once, after it;
\* hence when some complete assignment satisfies all rules at 28 days, the
\* returned schedule is complete and satisfies the 28-day threshold.
C8_PerfectWhenPossible ==
    /\ console \in {<<>>, <<PERFECT_SCHEDULE_DAY_RULE>>,
                    <<PERFECT_SCHEDULE_DAY_RULE, HIGH_QUALITY_DAY_RULE>>}
    /\ (/\ Returned
        /\ AllSlots # <<>>
        /\ \/ result = <<>>
           \/ ~AfterPrevious(Flatten(result), PERFECT_SCHEDULE_DAY_RULE))
       => ~CanComplete(<<>>, PERFECT_SCHEDULE_DAY_RULE)

\* C9: buildSchedule returns the empty list only when there are no slots or
\* no complete assignment satisfies weekly uniqueness, one MU per day and
\* 21-day spacing against the history.
C9_EmptyOnlyWhenImpossible ==
    (Returned /\ result = <<>> /\ AllSlots # <<>>)
    => ~CanComplete(<<>>, HIGH_QUALITY_DAY_RULE)

---------------------------------------------------------------------------
(* Properties of the constructor *)

AfterConstruction == pc # "construct"

\* C10: after construction the seed memory holds, for every roster group and
\* period, the latest date of the history records of that group and period,
\* in whatever order the records come; MU is neither in the seed memory nor
\* in the roster.
C10_SeedIsLatest ==
    AfterConstruction =>
        /\ DOMAIN initialPeriodAssignments = Range(LESSON_GROUPS)
        /\ \A g \in Range(LESSON_GROUPS) : \A p \in 1..8 :
               Get(initialPeriodAssignments[g], p) = LatestInHistory(g, p)
        /\ MU \notin Range(LESSON_GROUPS)
        /\ MU \notin DOMAIN initialPeriodAssignments

\* A builder whose roster was inferred from a history that has an MU record
\* and gives a group, in one period, a later date before an earlier one.
C10_Witness ==
    /\ AfterConstruction
    /\ LESSON_GROUPS = CustomGroups
    /\ LET list == scheduleHistory.list
       IN  /\ \E i \in 1..Len(list) : list[i].group = MU
           /\ \E i, j \in 1..Len(list) :
                  /\ i < j
                  /\ list[i].group = list[j].group
                  /\ ParsePeriod(list[i].period) = ParsePeriod(list[j].period)
                  /\ list[i].date > list[j].date
                  /\ list[i].date = LatestInHistory(list[i].group, 1)

\* The distinct group names of the history, MU and missing names left out.
DistinctNames ==
    {scheduleHistory.list[i].group : i \in 1..Len(scheduleHistory.list)} \ {MU, ""}

Mismatch ==
    /\ ~scheduleHistory.null
    /\ Len(scheduleHistory.list) > 0
    /\ Cardinality(DistinctNames) # REQUIRED_UNIQUE_GROUPS

IsMalformed(lesson) ==
    \/ lesson.group = ""
    \/ lesson.date = Missing
    \/ lesson.period = ""
    \/ ParsePeriod(lesson.period) = NaN

\* C13: a malformed history record leaves the seed memory exactly as it was,
\* and the well-formed records of the roster's groups in the same history
\* are all in the seed memory once the builder is constructed.
C13_MalformedSkipped ==
    /\ [][(/\ pc = "construct"
           /\ histPos' = histPos + 1
           /\ IsMalformed(scheduleHistory.list[histPos + 1]))
          => initialPeriodAssignments' = initialPeriodAssignments]_vars
    /\ [](AfterConstruction =>
            \A i \in 1..Len(scheduleHistory.list) :
                LET lesson == scheduleHistory.list[i]
                IN  (/\ ~IsMalformed(lesson)
                     /\ lesson.group \in Range(LESSON_GROUPS))
                    => Get(initialPeriodAssignments[lesson.group],
                           ParsePeriod(lesson.period)) >= lesson.date)

---------------------------------------------------------------------------
(* Properties of the slot list and of the day entries *)

\* The slot list has been generated.
Generated == pc \notin {"construct", "ready"}

\* A weekday that is not a day off.
Retained(d) == ~IsWeekend(d) /\ d \notin daysOff

\* The retained days of the horizon.
RetainedDays == {d \in startDate..(startDate + 7 * weeks - 1) : Retained(d)}

\* The number of retained days from the start date up to the day before d.
RetainedBefore(d) == Cardinality({x \in RetainedDays : x < d})

\* The periods of the slots of a date, in the order of the slot list.
PeriodsOn(d) ==
    LET on == SelectSeq(slots, LAMBDA s : s.date = d)
    IN  [i \in 1..Len(on) |-> on[i].period]

\* C14: the k-th retained day, counted from 0, has the cycle value
\* startCycle + k: weekends and days off do not advance the cycle.
C14_CycleCountsRetainedDays ==
    Generated =>
        \A i \in 1..Len(slots) :
            /\ Retained(slots[i].date)
            /\ slots[i].dayCycle = dayCycle + RetainedBefore(slots[i].date)

\* A slot list that goes over a day off and a weekend: the day after the day
\* off has the cycle of the day off, the Monday that of the Saturday.
C14_Witness ==
    /\ Generated
    /\ startDate = 60
    /\ daysOff = {62}
    /\ \E i, j \in 1..Len(slots) :
           /\ slots[i].date = 63 /\ slots[i].dayCycle = dayCycle + 2
           /\ slots[j].date = 67 /\ slots[j].dayCycle = dayCycle + 4

\* C15: a retained day with an odd cycle value has exactly the slots of
\* periods 1, 4, 7, 8 and one with an even cycle value those of periods
\* 1, 2, 3, 7, 8; the day entry of the date has the label 1 for odd and 2 for
\* even, and its lessons have those periods in that order.
C15_PeriodsOfTheDay ==
    /\ Generated =>
           \A d \in RetainedDays :
               PeriodsOn(d) = IF (dayCycle + RetainedBefore(d)) % 2 = 1
                              THEN <<1, 4, 7, 8>> ELSE <<1, 2, 3, 7, 8>>
    /\ Returned =>
           \A i \in 1..Len(result) :
               LET odd == (dayCycle + RetainedBefore(result[i].date)) % 2 = 1
               IN  /\ result[i].dayCycle = IF odd THEN 1 ELSE 2
                   /\ [j \in 1..Len(result[i].lessons) |-> result[i].lessons[j].period]
                        = IF odd THEN <<"Pd 1", "Pd 4", "Pd 7", "Pd 8">>
                          ELSE <<"Pd 1", "Pd 2", "Pd 3", "Pd 7", "Pd 8">>

\* A returned schedule whose fourth day has the cycle value 4 or 5: its entry
\* has five lessons under the label 2, or four under the label 1.
C15_Witness ==
    /\ Returned
    /\ Len(result) >= 4
    /\ dayCycle + RetainedBefore(result[4].date) > 3
    /\ \/ result[4].dayCycle = 2 /\ Len(result[4].lessons) = 5
       \/ result[4].dayCycle = 1 /\ Len(result[4].lessons) = 4

\* C16: the slot list is strictly ascending in (date, period) order.
C16_SlotsAscending ==
    \A i \in 1..(Len(slots) - 1) :
        \/ slots[i].date < slots[i + 1].date
        \/ /\ slots[i].date = slots[i + 1].date
           /\ slots[i].period < slots[i + 1].period

\* A slot list over several weeks, with days of both kinds.
C16_Witness ==
    /\ Generated
    /\ weeks = MaxWeeks
    /\ \E i, j \in 1..Len(slots) :
           /\ slots[i].period = 4 /\ slots[j].period = 2
           /\ slots[j].date - slots[i].date > 7

\* C17: every slot is dated from the start date on and before the start date
\* plus 7 * weeks days, the first slot is on the earliest retained day of that
\* range, and a Saturday start date gives a first day entry on the Monday
\* that follows.
C17_SlotsWithinHorizon ==
    /\ Generated =>
           /\ \A i \in 1..Len(slots) :
                  /\ startDate <= slots[i].date
                  /\ slots[i].date < startDate + 7 * weeks
           /\ RetainedDays # {} =>
                  /\ slots # <<>>
                  /\ \A d \in RetainedDays : slots[1].date <= d
    /\ (Returned /\ result # <<>> /\ GetDay(startDate) = 6
            /\ (startDate + 2) \notin daysOff)
        => result[1].date = startDate + 2

\* A schedule returned for a Saturday start date.
C17_Witness ==
    /\ Returned
    /\ startDate = 65
    /\ result # <<>>
    /\ result[1].date = 67

\* The day entries are strictly ascending by date and none is without lessons.
WellFormedDays(sched) ==
    /\ \A i \in 1..(Len(sched) - 1) : sched[i].date < sched[i + 1].date
    /\ \A i \in 1..Len(sched) : Len(sched[i].lessons) > 0

\* C18: the day-entry list is strictly ascending by date, with at most one
\* entry per date and no entry without lessons, in the returned schedule and
\* after every apply step and every undo step of the search.
C18_DayEntriesWellFormed ==
    /\ WellFormedDays(schedule)
    /\ WellFormedDays(result)

\* The search has undone its trial for the first slot: the entry of the first
\* day, left without lessons, is gone.
C18_Witness ==
    /\ pc = "loop"
    /\ Len(stack) = 1
    /\ stack[1].k > 1
    /\ schedule = <<>>

---------------------------------------------------------------------------
(* How often the groups are scheduled *)

\* The lessons of a group among the lessons flat.
LessonsOf(flat, g) == {i \in 1..Len(flat) : flat[i].group = g}

\* The weeks that have lessons in flat.
WeeksOf(flat) == {WeekOf(flat[i].date) : i \in 1..Len(flat)}

\* The lessons of a week.
InWeek(flat, w) == {i \in 1..Len(flat) : WeekOf(flat[i].date) = w}

\* C19: in every week of the returned schedule that has at least 22 slots,
\* each of the 22 roster groups has exactly one lesson, and MU has only the
\* slots in excess of 22.
C19_FullWeeksHoldEveryGroup ==
    Returned =>
        LET flat == Flatten(result)
        IN  \A w \in WeeksOf(flat) :
                Cardinality(InWeek(flat, w)) >= REQUIRED_UNIQUE_GROUPS =>
                    /\ \A g \in Range(LESSON_GROUPS) :
                           Cardinality(InWeek(flat, w) \cap LessonsOf(flat, g)) = 1
                    /\ Cardinality(InWeek(flat, w) \cap LessonsOf(flat, MU))
                           = Cardinality(InWeek(flat, w)) - REQUIRED_UNIQUE_GROUPS

\* The numbers of lessons of the groups that have at least one lesson.
LessonCounts(flat) ==
    {Cardinality(LessonsOf(flat, g)) :
        g \in {x \in Range(LESSON_GROUPS) : LessonsOf(flat, x) # {}}}

\* C20: in the returned schedule the most-scheduled group and the
\* least-scheduled group, among the groups scheduled at least once, differ by
\* at most 2 lessons.
C20_BalancedUsage ==
    Returned =>
        LET counts == LessonCounts(Flatten(result))
        IN  \A a, b \in counts : a - b <= 2

\* The groups of the lessons that are not MU, in the order of the schedule.
GroupSequence(flat) ==
    LET lessons == SelectSeq(flat, LAMBDA l : l.group # MU)
    IN  [i \in 1..Len(lessons) |-> lessons[i].group]

\* C21: in the sequence of the non-MU lessons of the returned schedule,
\* between two consecutive occurrences of a group every other roster group
\* occurs at least once.
C21_AllGroupsBetweenRepetitions ==
    Returned =>
        LET seq == GroupSequence(Flatten(result))
        IN  \A i \in 1..Len(seq) :
                LET later == {j \in (i + 1)..Len(seq) : seq[j] = seq[i]}
                IN  later # {} =>
                        LET next == CHOOSE j \in later : \A k \in later : j <= k
                        IN  {seq[k] : k \in (i + 1)..(next - 1)}
                                = Range(LESSON_GROUPS) \ {seq[i]}


---------------------------------------------------------------------------
(* The rotating-pool builder *)

\* The lessons the rotating-pool builder has committed so far, the ones of
\* the day in progress included.
PoolLessons ==
    Flatten(IF pc = "period" THEN Append(schedule, entry) ELSE schedule)

\* The roster groups that meet both rules for lesson i: no lesson yet in the
\* Monday-to-Sunday week of its date, and no date in its period, from the
\* history or from an earlier lesson, fewer than 28 days before it.
MeetBothRules(flat, i) ==
    {g \in Range(LESSON_GROUPS) :
        LET asG == [flat EXCEPT ![i].group = g]
        IN  /\ \A j \in 1..(i - 1) :
                   flat[j].group = g => WeekOf(flat[j].date) # WeekOf(flat[i].date)
            /\ PreviousDate(asG, i) # Undefined
               => flat[i].date - PreviousDate(asG, i) >= PoolDayRule}

\* C22: in the rotating-pool builder with the final guard, every lesson of a
\* group is at least 28 days after the group's previous lesson, or its latest
\* history date, in the same period; no group has two lessons between one
\* Monday and the next; and a slot for which no group meets both rules holds
\* MU.
C22_GuardedCommits ==
    LET flat == PoolLessons
    IN  /\ AfterPrevious(flat, PoolDayRule)
        /\ \A i, j \in 1..Len(flat) :
               (i < j /\ flat[i].group # MU /\ flat[i].group = flat[j].group)
               => WeekOf(flat[i].date) # WeekOf(flat[j].date)
        /\ \A i \in 1..Len(flat) :
               MeetBothRules(flat, i) = {} => flat[i].group = MU

\* The whole roster had period 1 on day 40, 27 days before the Monday start:
\* period 1 of the Monday holds MU, and period 1 of the Tuesday, 28 days
\* after day 40, holds a group.
C22_Witness ==
    /\ Returned
    /\ startDate = 67
    /\ LatestInHistory("A", 1) = 40
    /\ LET flat == Flatten(result)
       IN  /\ flat[1].date = 67 /\ flat[1].period = PeriodLabel(1)
           /\ flat[1].group = MU
           /\ MeetBothRules(flat, 1) = {}
           /\ \E i \in 1..Len(flat) :
                  /\ flat[i].date = 68
                  /\ flat[i].period = PeriodLabel(1)
                  /\ flat[i].group # MU

\* C23: the schedule of the rotating-pool builder has at most one MU on a
\* day, and no two MUs in consecutive periods of a day.
C23_NoMUClustering ==
    Returned =>
        \A d \in 1..Len(result) :
            LET lessons == result[d].lessons
            IN  /\ Cardinality({i \in 1..Len(lessons) : lessons[i].group = MU}) <= 1
                /\ \A i \in 1..(Len(lessons) - 1) :
                       ~(lessons[i].group = MU /\ lessons[i + 1].group = MU)


---------------------------------------------------------------------------
(* The search: undo, memory, order *)

\* solve is in its for loop after the undo of a trial.
AfterUndo == pc = "loop" /\ Top.beforeTrial # <<>>

\* solve is in its for loop with no candidate left: it returns false.
ReturnsFalse ==
    /\ pc = "loop"
    /\ NextValid(Top, TopSlot, weeklyAssignments, periodAssignments,
                 muDays, dayRule) = 0

\* C24: after the undo of a trial the schedule, the period memory, the weekly
\* sets and the MU days are what they were before the trial was applied, and
\* when solve returns false they are what they were when it was called.
C24_ExactUndo ==
    /\ AfterUndo => Mutable = Top.beforeTrial
    /\ ReturnsFalse => Mutable = Top.atEntry


\* solve is running, in either pass.
Searching == pc \in {"call", "loop", "returnTrue", "returnFalse"}

\* The dates of the lessons of group g in period p in the partial schedule.
DatesIn(flat, g, p) ==
    {flat[i].date : i \in {n \in 1..Len(flat) :
                              flat[n].group = g /\ flat[n].period = PeriodLabel(p)}}

\* C25: while solve runs, the set of a week holds exactly the groups with a
\* lesson in that week of the partial schedule, the MU days are exactly the
\* dates with an MU lesson, and the period memory of a group in a period reads
\* as the date of its latest lesson there, or, when it has none, as the date
\* the history left.
C25_MemoryAgrees ==
    Searching =>
        LET flat == Flatten(schedule)
            lessons == 1..Len(flat)
        IN  /\ \A w \in DOMAIN weeklyAssignments \cup
                        {getWeekIdentifier(flat[i].date) : i \in lessons} :
                   Get(weeklyAssignments, w)
                       = {flat[i].group : i \in {n \in lessons :
                             /\ flat[n].group # MU
                             /\ getWeekIdentifier(flat[n].date) = w}}
            /\ muDays = {flat[i].date : i \in {n \in lessons : flat[n].group = MU}}
            /\ \A g \in Range(LESSON_GROUPS), p \in SlotPeriods :
                   LET dates == DatesIn(flat, g, p)
                   IN  LastDate(periodAssignments, g, p)
                           = IF dates # {} THEN SetMax(dates)
                             ELSE LastDate(initialPeriodAssignments, g, p)

\* A trial of a group has been undone while other lessons stay: the period
\* memory of the group keeps the slot's period as a key and reads as no date.
C25_Witness ==
    /\ AfterUndo
    /\ schedule # <<>>
    /\ muDays = {}
    /\ \E g \in Range(LESSON_GROUPS) :
           /\ TopSlot.period \in DOMAIN periodAssignments[g]
           /\ LastDate(periodAssignments, g, TopSlot.period) = Undefined
    /\ \E g \in Range(LESSON_GROUPS), p \in SlotPeriods :
           LastDate(initialPeriodAssignments, g, p) # Undefined


\* The number of trials in place: every activation of solve but one that is
\* in its for loop has a trial applied, and none is undone once the last
\* slot is filled.
Depth ==
    CASE pc = "loop" -> Len(stack) - 1
      [] pc = "returnTrue" -> Len(slots)
      [] OTHER -> Len(stack)

\* C26: while solve runs with i trials in place, the lessons of the partial
\* schedule are one for each of the first i slots, in slot order, each of a
\* roster group or MU; no group has two lessons in one week; a group's
\* lessons in a period are at least dayRule days apart and at least dayRule
\* days after its history date in the period; and no date has two MUs.
C26_PartialScheduleValid ==
    Searching =>
        LET flat == Flatten(schedule)
        IN  /\ Len(flat) = Depth
            /\ \A i \in 1..Len(flat) :
                   /\ flat[i].date = slots[i].date
                   /\ flat[i].period = PeriodLabel(slots[i].period)
                   /\ flat[i].group \in Range(LESSON_GROUPS) \cup {MU}
            /\ \A j \in 1..Len(flat) : \A i \in 1..(j - 1) :
                   flat[i].group = flat[j].group
                   => IF flat[i].group = MU
                      THEN flat[i].date # flat[j].date
                      ELSE /\ WeekOf(flat[i].date) # WeekOf(flat[j].date)
                           /\ flat[i].period = flat[j].period
                              => flat[j].date - flat[i].date >= dayRule
            /\ RespectsSeeds(flat, dayRule)

\* solve has taken a trial back and has lessons in place, an MU among them,
\* with fewer lessons than slots.
C26_Witness ==
    /\ AfterUndo
    /\ Depth >= 2
    /\ Depth < Len(slots)
    /\ muDays # {}
    /\ Len(Flatten(schedule)) = Depth


\* The weekly sets, the period memory and the MU days with group g in slot.
WeeklyWith(wa, slot, g) ==
    LET weekId == getWeekIdentifier(slot.date)
        made == IF weekId \in DOMAIN wa THEN wa ELSE Put(wa, weekId, {})
    IN  IF g = MU THEN made ELSE [made EXCEPT ![weekId] = @ \cup {g}]

PeriodsWith(pa, slot, g) ==
    IF g = MU THEN pa ELSE [pa EXCEPT ![g] = Put(@, slot.period, slot.date)]

MUDaysWith(md, slot, g) == IF g = MU THEN md \cup {slot.date} ELSE md

\* Some assignment of roster groups and MU to the slots from i on passes the
\* validity check of every slot in turn, from the memory wa, pa, md.
RECURSIVE Completes(_, _, _, _, _)
Completes(i, wa, pa, md, rule) ==
    \/ i > Len(slots)
    \/ \E g \in Range(LESSON_GROUPS) \cup {MU} :
           /\ _isGroupValidForSlot(g, slots[i], wa, pa, md, rule)
           /\ Completes(i + 1, WeeklyWith(wa, slots[i], g),
                        PeriodsWith(pa, slots[i], g),
                        MUDaysWith(md, slots[i], g), rule)

\* C27: once solve has returned true for the index past the last slot, the
\* schedule and the memory change no more and the schedule in place is what
\* buildSchedule returns; and it is the first complete valid assignment in
\* the order of the candidates: whenever a call of solve returns false, the
\* trials in place have no valid completion.
C27_FirstSolutionReturned ==
    /\ [][pc = "returnTrue" =>
            /\ Mutable' = Mutable
            /\ pc' \in {"returnTrue", "done"}
            /\ pc' = "done" => result' = schedule]_vars
    /\ [](pc = "returnFalse" =>
            ~Completes(Len(stack) + 1, weeklyAssignments, periodAssignments,
                       muDays, dayRule))

\* solve has just returned true for the index past the last slot, and some
\* slot holds a candidate that was not the first valid one when the slot was
\* reached: an earlier one was tried and taken back.
C27_Witness ==
    /\ pc = "returnTrue"
    /\ Len(stack) = Len(slots)
    /\ \E i \in 1..Len(stack) :
           LET f == stack[i]
           IN  NextValid([f EXCEPT !.k = 1], slots[i], f.beforeTrial[2],
                         f.beforeTrial[3], f.beforeTrial[4], dayRule) < f.k


\* C28: the candidates of a slot, in the order the for loop tries them, are
\* the roster groups and then MU, each once; a group with no date in the
\* slot's period in the period memory comes before every group with one, and
\* of two groups with dates the one with the later date does not come first.
C28_CandidateOrder ==
    pc = "loop" =>
        LET cands == Top.candidates
            n == Len(LESSON_GROUPS)
            last(i) == LastDate(periodAssignments, cands[i], TopSlot.period)
        IN  /\ Len(cands) = n + 1
            /\ cands[n + 1] = MU
            /\ {cands[i] : i \in 1..n} = Range(LESSON_GROUPS)
            /\ \A i, j \in 1..n :
                   i < j =>
                       \/ last(i) = Undefined
                       \/ last(j) # Undefined /\ last(i) <= last(j)

\* The candidates of a slot whose period some groups never had, and others
\* had on two different dates, the later date belonging to a group that is
\* earlier in the roster.
C28_Witness ==
    /\ pc = "loop"
    /\ LET last(g) == LastDate(periodAssignments, g, TopSlot.period)
       IN  /\ \E g \in Range(LESSON_GROUPS) : last(g) = Undefined
           /\ \E i, j \in 1..Len(LESSON_GROUPS) :
                  /\ i < j
                  /\ last(LESSON_GROUPS[i]) # Undefined
                  /\ last(LESSON_GROUPS[j]) # Undefined
                  /\ last(LESSON_GROUPS[i]) > last(LESSON_GROUPS[j])


\* The roster groups that pass the validity check for slot i in the state in
\* which the trial in hand of the i-th activation of solve was applied.
ValidWhenAssigned(i) ==
    LET f == stack[i]
    IN  {g \in Range(LESSON_GROUPS) :
            _isGroupValidForSlot(g, slots[i], f.beforeTrial[2], f.beforeTrial[3],
                                 f.beforeTrial[4], dayRule)}

\* C29: a slot holds MU in the returned schedule only if every roster group
\* failed the validity check for the slot in the state in which MU was
\* assigned to it. (The trials in place when solve returns true for the index
\* past the last slot are the returned schedule.)
C29_MUOnlyWhenNoGroupValid ==
    (pc = "returnTrue" /\ Len(stack) = Len(slots)) =>
        \A i \in 1..Len(stack) :
            stack[i].candidates[stack[i].k] = MU => ValidWhenAssigned(i) = {}


\* C29, amended: a slot holds MU in the returned schedule only if, in the
\* state in which MU was assigned to it, every roster group either failed
\* the validity check for the slot or passed it and left no valid assignment
\* of the slots after it (such a group was tried before MU and taken back).
C29_MUOnlyWhenNoGroupCompletes ==
    (pc = "returnTrue" /\ Len(stack) = Len(slots)) =>
        \A i \in 1..Len(stack) :
            stack[i].candidates[stack[i].k] = MU =>
                \A g \in ValidWhenAssigned(i) :
                    LET before == stack[i].beforeTrial
                    IN  ~Completes(i + 1, WeeklyWith(before[2], slots[i], g),
                                   PeriodsWith(before[3], slots[i], g),
                                   MUDaysWith(before[4], slots[i], g), dayRule)

\* solve has returned true for the index past the last slot, and a slot
\* holds MU for which a roster group passed the validity check when MU was
\* assigned.
C29_Witness ==
    /\ pc = "returnTrue"
    /\ Len(stack) = Len(slots)
    /\ \E i \in 1..Len(stack) :
           /\ stack[i].candidates[stack[i].k] = MU
           /\ ValidWhenAssigned(i) # {}


\* The reset of src/unnamed/part_001, lines 605-616, which works on the
\* period memory of the failed pass: a key with a date in the seed memory
\* gets that date, any other key is deleted.
ResetInPlace(pa, seed) ==
    [g \in DOMAIN pa |->
        [p \in {q \in DOMAIN pa[g] : LastDate(seed, g, q) # Undefined} |-> seed[g][p]]]

\* The 28-day pass has failed: its first call of solve has returned false.
FirstPassFailed ==
    pc = "returnFalse" /\ stack = <<>> /\ dayRule = PERFECT_SCHEDULE_DAY_RULE

\* The 21-day pass is about to make its first call of solve.
SecondPassStarts ==
    pc = "call" /\ stack = <<>> /\ dayRule = HIGH_QUALITY_DAY_RULE

\* C30: the 21-day pass starts with an empty schedule, no weekly sets, no MU
\* days, and a period memory that is the memory the constructor built from
\* the history: no key and no date of the failed pass is left. The reset in
\* place of the failed pass's memory gives the same memory.
C30_SecondPassFromSeeds ==
    /\ SecondPassStarts =>
           /\ schedule = <<>>
           /\ weeklyAssignments = EmptyObject
           /\ muDays = {}
           /\ periodAssignments = initialPeriodAssignments
           /\ \A g \in Range(LESSON_GROUPS), p \in SlotPeriods :
                  LastDate(periodAssignments, g, p) = LatestInHistory(g, p)
    /\ FirstPassFailed =>
           ResetInPlace(periodAssignments, initialPeriodAssignments)
               = initialPeriodAssignments

\* The 21-day pass starts for a roster with dates from the history, after a
\* 28-day pass that gave periods 1 and 4 to groups and took them back.
C30_Witness ==
    /\ SecondPassStarts
    /\ console = <<PERFECT_SCHEDULE_DAY_RULE, HIGH_QUALITY_DAY_RULE>>
    /\ LatestInHistory("A", 7) = 42
    /\ LatestInHistory("A", 1) = Undefined
    /\ slots[1].period = 1


---------------------------------------------------------------------------
(* Calls of buildSchedule on one builder *)

\* C31: buildSchedule leaves the builder's seed memory, roster, start date,
\* start cycle, days off and weeks as the constructor set them, and every
\* call of buildSchedule on a builder returns what the earlier calls
\* returned.
C31_CallsLeaveBuilderAlone ==
    /\ [][pc # "construct" =>
            UNCHANGED <<initialPeriodAssignments, LESSON_GROUPS, startDate,
                        dayCycle, daysOff, weeks>>]_vars
    /\ [](Returned =>
            \A i \in 1..Len(earlierResults) : earlierResults[i] = result)

\* A second call has returned a schedule, found by the 21-day pass after a
\* 28-day pass that wrote into its memory and failed, in both calls, on a
\* builder with dates from the history.
C31_Witness ==
    /\ Returned
    /\ Len(earlierResults) = 1
    /\ result # <<>>
    /\ console = <<PERFECT_SCHEDULE_DAY_RULE, HIGH_QUALITY_DAY_RULE,
                   PERFECT_SCHEDULE_DAY_RULE, HIGH_QUALITY_DAY_RULE>>
    /\ LatestInHistory("A", 7) = 42


\* C32: buildSchedule returns. Until then the calls of solve in progress are
\* never more than the slots, each with the roster and MU as its candidates,
\* and what is returned is a lesson for every slot or, with the candidates
\* of both passes used up, the empty list.
C32_Terminates ==
    /\ <>Returned
    /\ [](/\ Len(stack) <= Len(slots)
          /\ \A i \in 1..Len(stack) :
                 /\ Len(stack[i].candidates) = Len(LESSON_GROUPS) + 1
                 /\ Len(stack[i].candidates) <= REQUIRED_UNIQUE_GROUPS + 1
          /\ Returned =>
                 \/ Len(Flatten(result)) = Len(slots)
                 \/ /\ result = <<>>
                    /\ console = <<PERFECT_SCHEDULE_DAY_RULE, HIGH_QUALITY_DAY_RULE>>)

\* buildSchedule has returned the empty list for a day of four slots after
\* both passes ran out of candidates.
C32_Witness ==
    /\ Returned
    /\ result = <<>>
    /\ Len(slots) = 4
    /\ console = <<PERFECT_SCHEDULE_DAY_RULE, HIGH_QUALITY_DAY_RULE>>


\* C33: when the undo of a trial leaves the day entry of its slot without
\* lessons, that entry is the last element of the schedule list and is the
\* one removed; every entry that still holds a lesson after the undo stays in
\* the list with a lesson, and no entry of the list is ever empty.
C33_PopRemovesEmptiedEntry ==
    /\ [][pc = "returnFalse" /\ stack # <<>> /\ pc' = "loop" =>
            LET at == FindDay(schedule, TopSlot.date)
            IN  /\ at # 0
                /\ Len(schedule[at].lessons) = 1 =>
                       /\ at = Len(schedule)
                       /\ schedule' = SubSeq(schedule, 1, Len(schedule) - 1)
                /\ \A i \in 1..Len(schedule) :
                       (i # at \/ Len(schedule[i].lessons) > 1) =>
                           \E j \in 1..Len(schedule') :
                               /\ schedule'[j].date = schedule[i].date
                               /\ Len(schedule'[j].lessons) >= 1]_vars
    /\ [](Searching => \A i \in 1..Len(schedule) : Len(schedule[i].lessons) >= 1)

\* An undo has emptied and removed the entry of its day while entries of
\* earlier days stay in the list.
C33_Witness ==
    /\ AfterUndo
    /\ FindDay(schedule, TopSlot.date) = 0
    /\ Len(schedule) >= 1
    /\ schedule = Top.atEntry[1]


\* C34: after the undo of a failed trial, _isGroupValidForSlot gives for every
\* candidate and every slot, and the sort of the candidates gives for every
\* period, what it gave on the state before the trial was applied.
C34_UndoLeavesNoResidue ==
    AfterUndo =>
        LET was == Top.beforeTrial
        IN  /\ \A i \in 1..Len(slots) :
                   \A g \in Range(LESSON_GROUPS) \cup {MU} :
                       _isGroupValidForSlot(g, slots[i], weeklyAssignments,
                                            periodAssignments, muDays, dayRule)
                           = _isGroupValidForSlot(g, slots[i], was[2], was[3],
                                                  was[4], dayRule)
            /\ \A p \in {slots[i].period : i \in 1..Len(slots)} :
                   Candidates(LESSON_GROUPS, periodAssignments, p)
                       = Candidates(LESSON_GROUPS, was[3], p)

\* The undo of a trial has left a residue: the period memory or the weekly
\* sets differ from what they were before the trial.
C34_Witness ==
    /\ AfterUndo
    /\ <<weeklyAssignments, periodAssignments>> # <<Top.beforeTrial[2], Top.beforeTrial[3]>>


\* The number of group sets of n groups.
SetsOfSize(n) == Cardinality({i \in 1..Len(groupSets) : Len(groupSets[i]) = n})

\* The list with its first element moved to the end.
FirstToEnd(list) == SubSeq(list, 2, Len(list)) \o <<list[1]>>

\* C35: a roster of 22 groups is held in five sets, two of five groups and
\* three of four, whose groups together are the roster with no group lost or
\* repeated; a refresh puts the first set last and in every set the first
\* group last, and the pool it yields is the roster in some order.
C35_PoolsKeepRoster ==
    /\ [](pc # "construct" /\ Len(LESSON_GROUPS) = 22 =>
            /\ Len(groupSets) = 5
            /\ SetsOfSize(5) = 2
            /\ SetsOfSize(4) = 3
            /\ Len(Flat(groupSets)) = 22
            /\ Range(Flat(groupSets)) = Range(LESSON_GROUPS))
    /\ [][pc = "ready" => <<Len(groupSets'[1]), Len(groupSets'[2]), Len(groupSets'[3]),
                            Len(groupSets'[4]), Len(groupSets'[5])>> = <<5, 5, 4, 4, 4>>]_vars
    /\ [][pc = "period" /\ groupSets' # groupSets =>
            /\ groupsForCycle = <<>>
            /\ \A i \in 1..5 :
                   groupSets'[i] = FirstToEnd(groupSets[IF i = 5 THEN 1 ELSE i + 1])
            /\ LET given == entry'.lessons[Len(entry'.lessons)].group
                   pool == IF given = MU THEN groupsForCycle'
                           ELSE <<given>> \o groupsForCycle'
               IN  /\ Len(pool) = 22
                   /\ Range(pool) = Range(LESSON_GROUPS)]_vars

\* The sets have been refreshed at least twice: the set that was first is now
\* fourth, and a slot later in the run has just been filled.
C35_Witness ==
    /\ pc = "period"
    /\ Len(LESSON_GROUPS) = 22
    /\ groupSets # SplitGroups(LESSON_GROUPS)
    /\ Range(groupSets[4]) = Range(SplitGroups(LESSON_GROUPS)[1])
    /\ Len(groupsForCycle) = 21


\* The slots filled so far in the Monday-to-Sunday week of the current date.
SlotsThisWeek ==
    LET flat == PoolLessons
    IN  Cardinality({i \in 1..Len(flat) :
                        WeekOf(flat[i].date) = WeekOf(poolCurrentDate)})

\* C36: while a day's periods are filled the weekly counter is the number of
\* slots filled since the last Monday, also when that Monday was a day off;
\* and a slot filled when 22 slots of the week are filled already gets MU and
\* leaves the group sets, the active pool, the groups used in the week and
\* the period memory as they were.
C36_WeeklyCap ==
    /\ [](pc = "period" => weeklyLessonCount = SlotsThisWeek)
    /\ [][pc = "period" /\ pc' = "period" /\ SlotsThisWeek >= 22 =>
            /\ entry'.lessons = Append(entry.lessons,
                   Lesson(PeriodsOf(dayCycle)[Len(entry.lessons) + 1], MU))
            /\ UNCHANGED <<groupSets, groupsForCycle, usedGroupsThisWeek,
                           periodAssignments>>]_vars

\* The twenty-third slot of a week has been filled, in a week that follows a
\* Monday off.
C36_Witness ==
    /\ pc = "period"
    /\ SlotsThisWeek = 23
    /\ \E d \in daysOff : GetDay(d) = 1 /\ d < poolCurrentDate


\* The tiers without the mercy search: the strict search on the active pool,
\* then the strict search on the roster.
TwoTiers(cycle, roster, pa, used, usedToday, date, period) ==
    LET tier1 == findBestGroupForPeriod(
                     weeklyAvailableGroups(cycle, used, usedToday),
                     pa, date, period, FALSE)
        tier2 == findBestGroupForPeriod(
                     weeklyAvailableGroups(roster, used, usedToday),
                     pa, date, period, FALSE)
    IN  IF tier1.group # MU THEN tier1 ELSE tier2

\* C37: a slot filled below the weekly cap gets the group that the two strict
\* searches find, and MU when they find none: the mercy search never decides
\* a slot.
C37_MercyNeverCommitted ==
    [][pc = "period" /\ pc' = "period" /\ weeklyLessonCount < WeeklyCap =>
          LET period == PeriodsOf(dayCycle)[Len(entry.lessons) + 1]
              cycle == IF Len(groupsForCycle) = 0 THEN Flat(groupSets')
                       ELSE groupsForCycle
              usedToday == {entry.lessons[i].group : i \in 1..Len(entry.lessons)}
              strict == TwoTiers(cycle, LESSON_GROUPS, periodAssignments,
                                 usedGroupsThisWeek, usedToday, poolCurrentDate,
                                 period)
          IN  /\ entry'.lessons = Append(entry.lessons, Lesson(period, strict.group))
              /\ strict.group = MU =>
                     UNCHANGED <<periodAssignments, usedGroupsThisWeek>>]_vars

\* A slot below the weekly cap has just received MU although the mercy search
\* finds a group for it.
C37_Witness ==
    /\ pc = "period"
    /\ Len(entry.lessons) >= 1
    /\ weeklyLessonCount <= WeeklyCap
    /\ entry.lessons[Len(entry.lessons)].group = MU
    /\ LET usedToday == {entry.lessons[i].group : i \in 1..(Len(entry.lessons) - 1)}
       IN  findBestGroupForPeriod(
               weeklyAvailableGroups(LESSON_GROUPS, usedGroupsThisWeek, usedToday),
               periodAssignments, poolCurrentDate,
               PeriodsOf(dayCycle)[Len(entry.lessons)], TRUE).group # MU


\* C38: a further buildSchedule call on the same rotating-pool builder starts
\* with no schedule entries and returns the schedule that the calls before it
\* returned.
C38_PoolCallsIndependent ==
    /\ (pc = "ready" /\ earlierResults # <<>>) => schedule = <<>>
    /\ Returned => \A i \in 1..Len(earlierResults) : earlierResults[i] = result


\* C39: when validateHistory gives no error for the pasted history, the
\* builder made from it has the 22 names that validateHistory counted as its
\* roster, and when the constructor returns its seed memory holds a date for
\* every record of one of those names.
C39_AcceptedRosterUsed ==
    (/\ pc \in {"construct", "ready"}
     /\ page.checked
     /\ validateHistory(page.rows, page.west).errors = <<>>) =>
        /\ Len(LESSON_GROUPS) = REQUIRED_UNIQUE_GROUPS
        /\ Range(LESSON_GROUPS) = validateHistory(page.rows, page.west).uniqueGroups
        /\ pc = "ready" =>
               \A i \in 1..Len(scheduleHistory.list) :
                   LET lesson == scheduleHistory.list[i]
                   IN  lesson.group \in validateHistory(page.rows, page.west).uniqueGroups
                       => /\ lesson.group \in DOMAIN initialPeriodAssignments
                          /\ Get(initialPeriodAssignments[lesson.group],
                                 ParsePeriod(lesson.period)) # Undefined

============================================================================
